---------------------------- MODULE Spec2Model ----------------------------
(***************************************************************************)
(* Request resilience pipeline of the incident.io MCP server client:       *)
(* circuit breaker, token-bucket rate limiter, retry policy, the request   *)
(* executor (Client.doRequestWithContext), the TTL cache and the           *)
(* read-through severity endpoints.                                        *)
(*                                                                         *)
(* Time is a discrete clock `now` (one tick is the model's unit of         *)
(* duration); every time.Now() of the code reads `now`.                    *)
(***************************************************************************)
EXTENDS Integers, Sequences, FiniteSets, TLC

VARIABLES
    now,        \* wall clock read by time.Now() / time.Since()
    cb,         \* the CircuitBreaker struct (config and mutable fields)
    trial,      \* history of the current half-open period (observation only)
    caller,     \* goroutines calling CircuitBreaker.Call directly
    rl,         \* the RateLimiter struct
    retryConfig,\* the client's RetryConfig
    exec,       \* goroutines running Client.doRequestWithContext
    waiter,     \* goroutines calling RateLimiter.Wait directly
    granted,    \* number of Wait calls that returned nil (observation only)
    cache,      \* the Cache struct (entries and ttl)
    cacheLog,   \* last cache operation and last Set per key (observation only)
    baseURL,    \* the client's baseURL field
    sev,        \* goroutines running ListSeverities / GetSeverity
    other,      \* a goroutine running DoRequest for another endpoint
    probe,      \* last direct call of a pure function: inputs and result
    mu          \* the mutexes of the rate limiter, the breaker and the cache

vars == <<now, cb, trial, caller, rl, retryConfig, exec,
          waiter, granted, cache, cacheLog, baseURL, sev, other, probe,
          mu>>

\* The variables of the direct Wait callers, of the cache and its readers,
\* and of the breaker and executor.
waitVars == <<waiter, granted>>
cacheVars == <<cache, cacheLog, baseURL, sev>>
pipelineVars == <<cb, trial, caller, retryConfig, exec>>
extraVars == <<other, probe, mu>>

-----------------------------------------------------------------------------
(* Bounds of the model *)

MaxTime == 4          \* the clock stops advancing here
MaxExecTime == 3      \* the same, while requests run through the executor
MaxRequests == 6      \* no new call is started once cb.requests reaches this

BucketSize == 3       \* rate limiter capacity, in tokens
TicksPerToken == 2    \* refill rate is 1/TicksPerToken tokens per tick

MaxWaits == 6         \* no new Wait is started once rl.requestsCount reaches this
MaxTTL == 2           \* longest cache ttl, in ticks
MaxSevTime == 2       \* the clock stops here while severities are read
MaxInitialBackoff == 3 \* largest initialBackoff of the configurations tried
MaxAttempt == 10      \* largest attempt CalculateBackoff is called with

Callers == {"g1", "g2"}

\* A sync.RWMutex: w is the goroutine holding the write lock ("free" when
\* nobody does), r the goroutines holding a read lock.
Mutexes == {"rl", "cb", "cache"}
FreeMu == [m \in Mutexes |-> [w |-> "free", r |-> {}]]

-----------------------------------------------------------------------------
(* Circuit breaker: internal/client/circuit_breaker.go *)

StateClosed == "closed"
StateOpen == "open"
StateHalfOpen == "half-open"

ErrNil == "nil"
ErrCircuitOpen == "circuit breaker is open"
ErrTooManyRequests == "too many requests"

\* Breaker configurations used to construct the breaker.  Durations are in
\* ticks; FailureThreshold is the fraction ThresholdNum / ThresholdDen.
DefaultCircuitBreakerConfig ==
    [MaxFailures |-> 5, Timeout |-> 30, HalfOpenMaxRequests |-> 3,
     ThresholdNum |-> 1, ThresholdDen |-> 2, MinRequests |-> 10]

\* Configurations the breaker is constructed with when it is driven
\* directly through Call: the one of TestCircuitBreaker_OpenOnFailures, and
\* a small one whose half-open cap two goroutines can reach.
CircuitBreakerConfigs ==
    { [MaxFailures |-> 3, Timeout |-> 1, HalfOpenMaxRequests |-> 2,
       ThresholdNum |-> 1, ThresholdDen |-> 2, MinRequests |-> 5],
      [MaxFailures |-> 2, Timeout |-> 1, HalfOpenMaxRequests |-> 1,
       ThresholdNum |-> 1, ThresholdDen |-> 2, MinRequests |-> 3] }

\* Configurations of the breaker inside a client: the default, and one in
\* which two requests are enough of a sample for the failure rate.
ClientBreakerConfigs ==
    { DefaultCircuitBreakerConfig,
      [MaxFailures |-> 3, Timeout |-> 2, HalfOpenMaxRequests |-> 1,
       ThresholdNum |-> 1, ThresholdDen |-> 2, MinRequests |-> 2] }

NewCircuitBreaker(config) ==
    [config |-> config,
     state |-> StateClosed,
     failures |-> 0,
     successes |-> 0,
     requests |-> 0,
     lastFailureTime |-> 0,
     lastStateChange |-> now,
     halfOpenRequests |-> 0,
     consecutiveFailures |-> 0]

\* beforeRequest that counts the request before it decides on admission.
beforeRequest_CountsRejected(b, t) ==
    LET b1 == [b EXCEPT !.requests = @ + 1]
    IN  CASE b.state = StateClosed -> [b |-> b1, err |-> ErrNil]
          [] b.state = StateOpen ->
                IF t - b.lastStateChange > b.config.Timeout
                THEN [b |-> [b1 EXCEPT !.state = StateHalfOpen,
                                       !.lastStateChange = t,
                                       !.halfOpenRequests = 1],
                      err |-> ErrNil]
                ELSE [b |-> b1, err |-> ErrCircuitOpen]
          [] b.state = StateHalfOpen ->
                IF b.halfOpenRequests >= b.config.HalfOpenMaxRequests
                THEN [b |-> b1, err |-> ErrTooManyRequests]
                ELSE [b |-> [b1 EXCEPT !.halfOpenRequests = @ + 1],
                      err |-> ErrNil]

\* beforeRequest with the half-open timeout test written >= instead of >.
beforeRequest_TimeoutInclusive(b, t) ==
    CASE b.state = StateClosed ->
            [b |-> [b EXCEPT !.requests = @ + 1], err |-> ErrNil]
      [] b.state = StateOpen ->
            IF t - b.lastStateChange >= b.config.Timeout
            THEN [b |-> [b EXCEPT !.state = StateHalfOpen,
                                  !.lastStateChange = t,
                                  !.requests = @ + 1,
                                  !.halfOpenRequests = 1],
                  err |-> ErrNil]
            ELSE [b |-> b, err |-> ErrCircuitOpen]
      [] b.state = StateHalfOpen ->
            IF b.halfOpenRequests >= b.config.HalfOpenMaxRequests
            THEN [b |-> b, err |-> ErrTooManyRequests]
            ELSE [b |-> [b EXCEPT !.requests = @ + 1,
                                  !.halfOpenRequests = @ + 1],
                  err |-> ErrNil]

\* beforeRequest without the half-open cap.
beforeRequest_NoCap(b, t) ==
    CASE b.state = StateClosed ->
            [b |-> [b EXCEPT !.requests = @ + 1], err |-> ErrNil]
      [] b.state = StateOpen ->
            IF t - b.lastStateChange > b.config.Timeout
            THEN [b |-> [b EXCEPT !.state = StateHalfOpen,
                                  !.lastStateChange = t,
                                  !.requests = @ + 1,
                                  !.halfOpenRequests = 1],
                  err |-> ErrNil]
            ELSE [b |-> b, err |-> ErrCircuitOpen]
      [] b.state = StateHalfOpen ->
            [b |-> [b EXCEPT !.requests = @ + 1,
                             !.halfOpenRequests = @ + 1],
             err |-> ErrNil]

\* beforeRequest: the admission decision, taken under cb.mu.
\* The result is the breaker after the call and the error returned.
\* beforeRequest in which a call rejected while open restarts the timeout.
beforeRequest_RestartsTimeout(b, t) ==
    CASE b.state = StateClosed ->
            [b |-> [b EXCEPT !.requests = @ + 1], err |-> ErrNil]
      [] b.state = StateOpen ->
            IF t - b.lastStateChange > b.config.Timeout
            THEN [b |-> [b EXCEPT !.state = StateHalfOpen,
                                  !.lastStateChange = t,
                                  !.requests = @ + 1,
                                  !.halfOpenRequests = 1],
                  err |-> ErrNil]
            ELSE [b |-> [b EXCEPT !.lastStateChange = t], err |-> ErrCircuitOpen]
      [] b.state = StateHalfOpen ->
            IF b.halfOpenRequests >= b.config.HalfOpenMaxRequests
            THEN [b |-> b, err |-> ErrTooManyRequests]
            ELSE [b |-> [b EXCEPT !.requests = @ + 1,
                                  !.halfOpenRequests = @ + 1],
                  err |-> ErrNil]

beforeRequest(b, t) ==
    CASE b.state = StateClosed ->
            [b |-> [b EXCEPT !.requests = @ + 1], err |-> ErrNil]
      [] b.state = StateOpen ->
            IF t - b.lastStateChange > b.config.Timeout
            THEN [b |-> [b EXCEPT !.state = StateHalfOpen,
                                  !.lastStateChange = t,
                                  !.requests = @ + 1,
                                  !.halfOpenRequests = 1],
                  err |-> ErrNil]
            ELSE [b |-> b, err |-> ErrCircuitOpen]
      [] b.state = StateHalfOpen ->
            IF b.halfOpenRequests >= b.config.HalfOpenMaxRequests
            THEN [b |-> b, err |-> ErrTooManyRequests]
            ELSE [b |-> [b EXCEPT !.requests = @ + 1,
                                  !.halfOpenRequests = @ + 1],
                  err |-> ErrNil]

\* shouldOpen with the failure-rate test written > instead of >=.
shouldOpen_RateStrict(b) ==
    \/ b.consecutiveFailures >= b.config.MaxFailures
    \/ /\ b.requests >= b.config.MinRequests
       /\ b.failures * b.config.ThresholdDen > b.config.ThresholdNum * b.requests

\* shouldOpen with the consecutive-failure test written > instead of >=.
shouldOpen_Strict(b) ==
    \/ b.consecutiveFailures > b.config.MaxFailures
    \/ /\ b.requests >= b.config.MinRequests
       /\ b.failures * b.config.ThresholdDen >= b.config.ThresholdNum * b.requests

\* shouldOpen without the minimum-sample guard on the failure rate.
shouldOpen_NoMinRequests(b) ==
    \/ b.consecutiveFailures >= b.config.MaxFailures
    \/ b.failures * b.config.ThresholdDen >= b.config.ThresholdNum * b.requests

\* shouldOpen: the trip condition.  float64(failures)/float64(requests) >=
\* FailureThreshold is compared by cross-multiplication (with requests = 0
\* and failures > 0 the quotient is +Inf, which also compares >=).
shouldOpen(b) ==
    \/ b.consecutiveFailures >= b.config.MaxFailures
    \/ /\ b.requests >= b.config.MinRequests
       /\ b.failures * b.config.ThresholdDen >= b.config.ThresholdNum * b.requests

\* reset that leaves the success counter alone.
reset_KeepsSuccesses(b) ==
    [b EXCEPT !.failures = 0,
              !.requests = 0,
              !.consecutiveFailures = 0,
              !.halfOpenRequests = 0]

\* reset that leaves consecutiveFailures alone.
reset_KeepsConsecutiveFailures(b) ==
    [b EXCEPT !.failures = 0,
              !.successes = 0,
              !.requests = 0,
              !.halfOpenRequests = 0]

\* reset: clears the counters.
reset(b) ==
    [b EXCEPT !.failures = 0,
              !.successes = 0,
              !.requests = 0,
              !.consecutiveFailures = 0,
              !.halfOpenRequests = 0]

\* onFailure that reopens from half-open without restamping lastStateChange.
onFailure_KeepTimestamp(b, t) ==
    LET b1 == [b EXCEPT !.failures = @ + 1,
                        !.consecutiveFailures = @ + 1,
                        !.lastFailureTime = t]
    IN  CASE b1.state = StateClosed ->
                IF shouldOpen(b1)
                THEN [b1 EXCEPT !.state = StateOpen, !.lastStateChange = t]
                ELSE b1
          [] b1.state = StateHalfOpen ->
                [b1 EXCEPT !.state = StateOpen, !.halfOpenRequests = 0]
          [] OTHER -> b1

\* onFailure that reopens from half-open without clearing halfOpenRequests.
onFailure_KeepsHalfOpenRequests(b, t) ==
    LET b1 == [b EXCEPT !.failures = @ + 1,
                        !.consecutiveFailures = @ + 1,
                        !.lastFailureTime = t]
    IN  CASE b1.state = StateClosed ->
                IF shouldOpen(b1)
                THEN [b1 EXCEPT !.state = StateOpen, !.lastStateChange = t]
                ELSE b1
          [] b1.state = StateHalfOpen ->
                [b1 EXCEPT !.state = StateOpen, !.lastStateChange = t]
          [] OTHER -> b1

\* onFailure that leaves a half-open breaker half-open.
onFailure_HalfOpenStays(b, t) ==
    LET b1 == [b EXCEPT !.failures = @ + 1,
                        !.consecutiveFailures = @ + 1,
                        !.lastFailureTime = t]
    IN  CASE b1.state = StateClosed ->
                IF shouldOpen(b1)
                THEN [b1 EXCEPT !.state = StateOpen, !.lastStateChange = t]
                ELSE b1
          [] OTHER -> b1

onFailure(b, t) ==
    LET b1 == [b EXCEPT !.failures = @ + 1,
                        !.consecutiveFailures = @ + 1,
                        !.lastFailureTime = t]
    IN  CASE b1.state = StateClosed ->
                IF shouldOpen(b1)
                THEN [b1 EXCEPT !.state = StateOpen, !.lastStateChange = t]
                ELSE b1
          [] b1.state = StateHalfOpen ->
                [b1 EXCEPT !.state = StateOpen,
                           !.lastStateChange = t,
                           !.halfOpenRequests = 0]
          [] OTHER -> b1

\* onSuccess with the closing test written > instead of >=.
onSuccess_Strict(b, t) ==
    LET b1 == [b EXCEPT !.successes = @ + 1,
                        !.consecutiveFailures = 0]
    IN  IF /\ b1.state = StateHalfOpen
           /\ b1.halfOpenRequests > b1.config.HalfOpenMaxRequests
        THEN reset([b1 EXCEPT !.state = StateClosed, !.lastStateChange = t])
        ELSE b1

onSuccess(b, t) ==
    LET b1 == [b EXCEPT !.successes = @ + 1,
                        !.consecutiveFailures = 0]
    IN  IF /\ b1.state = StateHalfOpen
           /\ b1.halfOpenRequests >= b1.config.HalfOpenMaxRequests
        THEN reset([b1 EXCEPT !.state = StateClosed, !.lastStateChange = t])
        ELSE b1

\* afterRequest: records the outcome of the wrapped function under cb.mu.
afterRequest(b, t, failed) ==
    IF failed THEN onFailure(b, t) ELSE onSuccess(b, t)

\* Reset: administrative reset to closed.
Reset(b, t) ==
    reset([b EXCEPT !.state = StateClosed, !.lastStateChange = t])

-----------------------------------------------------------------------------
(* Observation of the breaker's history (no effect on the program):       *)
(*   period    - number of Open -> HalfOpen transitions so far             *)
(*   admitted  - calls admitted in the current half-open period            *)
(*   succeeded - of those, the calls that have returned nil                *)
(*   streak    - failed calls recorded since the last success or Reset     *)
(*   last      - the last thing that happened to the breaker               *)

NoTrial ==
    [period |-> 0, admitted |-> 0, succeeded |-> 0, streak |-> 0, last |-> "none"]

TrialAfterAdmission(b, r) ==
    IF r.err # ErrNil
    THEN [trial EXCEPT !.last = r.err]
    ELSE IF b.state = StateOpen
    THEN [trial EXCEPT !.period = @ + 1, !.admitted = 1, !.succeeded = 0,
                       !.last = "admit"]
    ELSE IF b.state = StateHalfOpen
    THEN [trial EXCEPT !.admitted = @ + 1, !.last = "admit"]
    ELSE [trial EXCEPT !.last = "admit"]

TrialAfterOutcome(b, b2, failed, epoch) ==
    IF failed
    THEN [trial EXCEPT !.streak = @ + 1,
                       !.last = IF b.state = StateClosed /\ b2.state = StateOpen
                                THEN "trip"
                                ELSE IF b.state = StateHalfOpen /\ b2.state = StateOpen
                                THEN "reopen"
                                ELSE "failure"]
    ELSE [trial EXCEPT !.streak = 0,
                       !.succeeded = IF b.state = StateHalfOpen /\ epoch = trial.period
                                     THEN @ + 1 ELSE @,
                       !.last = IF b.state = StateHalfOpen /\ b2.state = StateClosed
                                THEN "close" ELSE "success"]

\* The half-open period a call was admitted in (0: admitted while closed).
EpochOfAdmission(b2, tr) ==
    IF b2.state = StateHalfOpen THEN tr.period ELSE 0

-----------------------------------------------------------------------------
(* CircuitBreaker.Call by concurrent goroutines *)

\* Call, first half: beforeRequest; a rejected call returns its error
\* without running fn, an admitted call starts running fn.
CallBegin(c) ==
    /\ caller[c].pc = "idle"
    /\ cb.requests < MaxRequests
    /\ LET r == beforeRequest(cb, now)
           tr == TrialAfterAdmission(cb, r)
       IN  /\ cb' = r.b
           /\ trial' = tr
           /\ caller' = [caller EXCEPT ![c] =
                 IF r.err = ErrNil
                 THEN [pc |-> "infn", res |-> "none",
                       epoch |-> EpochOfAdmission(r.b, tr)]
                 ELSE [pc |-> "idle", res |-> r.err, epoch |-> 0]]
    /\ UNCHANGED <<now, rl, retryConfig, exec, waitVars, extraVars, cacheVars>>

\* Call, second half: fn returns (nil or an error), afterRequest records
\* it and Call returns fn's result.
CallEnd(c, failed) ==
    /\ caller[c].pc = "infn"
    /\ cb' = afterRequest(cb, now, failed)
    /\ trial' = TrialAfterOutcome(cb, cb', failed, caller[c].epoch)
    /\ caller' = [caller EXCEPT ![c] =
          [pc |-> "idle", res |-> IF failed THEN "error" ELSE ErrNil,
           epoch |-> 0]]
    /\ UNCHANGED <<now, rl, retryConfig, exec, waitVars, extraVars, cacheVars>>

ResetBreaker ==
    /\ cb.state # StateClosed \/ cb.requests > 0
    /\ cb' = Reset(cb, now)
    /\ trial' = [trial EXCEPT !.streak = 0, !.last = "reset"]
    /\ UNCHANGED <<now, caller, rl, retryConfig, exec, waitVars, extraVars, cacheVars>>

Tick ==
    /\ now < MaxTime
    /\ now' = now + 1
    /\ UNCHANGED <<cb, trial, caller, rl, retryConfig, exec, waitVars, extraVars, cacheVars>>

-----------------------------------------------------------------------------
(* Token-bucket rate limiter: internal/client/ratelimiter.go               *)
(* The refill rate is 1/ticksPerToken tokens per tick; `tokens` is kept in *)
(* units of 1/ticksPerToken of a token, so that elapsed * refillRate is    *)
(* exact.                                                                  *)

NewRateLimiter(maxTokens, ticksPerToken) ==
    [tokens |-> maxTokens * ticksPerToken,
     maxTokens |-> maxTokens * ticksPerToken,
     ticksPerToken |-> ticksPerToken,
     lastRefill |-> now,
     requestsCount |-> 0,
     throttledCount |-> 0]

\* refill without the cap at maxTokens.
refill_NoCap(r, t) ==
    [r EXCEPT !.tokens = r.tokens + (t - r.lastRefill), !.lastRefill = t]

\* refill that does not record when it last ran.
refill_KeepsLastRefill(r, t) ==
    LET added == r.tokens + (t - r.lastRefill)
    IN  [r EXCEPT !.tokens = IF added > r.maxTokens THEN r.maxTokens ELSE added]

\* refill: adds elapsed * refillRate tokens, capped at maxTokens.
refill(r, t) ==
    LET added == r.tokens + (t - r.lastRefill)
    IN  [r EXCEPT !.tokens = IF added > r.maxTokens THEN r.maxTokens ELSE added,
                  !.lastRefill = t]

\* tryAcquire that hands out a token as soon as the bucket is not empty.
tryAcquire_AnyToken(r, t) ==
    LET r1 == refill(r, t)
        r2 == [r1 EXCEPT !.requestsCount = @ + 1]
    IN  IF r2.tokens > 0
        THEN [r |-> [r2 EXCEPT !.tokens = @ - r2.ticksPerToken], ok |-> TRUE]
        ELSE [r |-> [r2 EXCEPT !.throttledCount = @ + 1], ok |-> FALSE]

\* tryAcquire that takes the token before it tests the bucket.
tryAcquire_TakesFirst(r, t) ==
    LET r1 == refill(r, t)
        r2 == [r1 EXCEPT !.requestsCount = @ + 1,
                         !.tokens = @ - r1.ticksPerToken]
    IN  IF r2.tokens >= 0
        THEN [r |-> r2, ok |-> TRUE]
        ELSE [r |-> [r2 EXCEPT !.throttledCount = @ + 1], ok |-> FALSE]

\* tryAcquire that counts a request only when it hands out a token.
tryAcquire_CountsGranted(r, t) ==
    LET r1 == refill(r, t)
    IN  IF r1.tokens >= r1.ticksPerToken
        THEN [r |-> [r1 EXCEPT !.tokens = @ - r1.ticksPerToken,
                               !.requestsCount = @ + 1],
              ok |-> TRUE]
        ELSE [r |-> [r1 EXCEPT !.throttledCount = @ + 1], ok |-> FALSE]

\* tryAcquire: one critical section; ok says whether a token was taken.
tryAcquire(r, t) ==
    LET r1 == refill(r, t)
        r2 == [r1 EXCEPT !.requestsCount = @ + 1]
    IN  IF r2.tokens >= r2.ticksPerToken
        THEN [r |-> [r2 EXCEPT !.tokens = @ - r2.ticksPerToken], ok |-> TRUE]
        ELSE [r |-> [r2 EXCEPT !.throttledCount = @ + 1], ok |-> FALSE]

\* timeUntilNextToken: (1 - tokens) / refillRate, in ticks.
timeUntilNextToken(r) ==
    IF r.tokens >= r.ticksPerToken THEN 0 ELSE r.ticksPerToken - r.tokens

-----------------------------------------------------------------------------
(* RateLimiter.Wait called directly by concurrent goroutines *)

Waiters == {"w1", "w2"}

\* blocked: this Wait has found the bucket empty at least once;
\* taken: what this Wait has removed from the bucket, in token units.
IdleWaiters ==
    [w \in Waiters |-> [pc |-> "idle", ctxDone |-> FALSE, wake |-> 0,
                        res |-> "none", blocked |-> FALSE, taken |-> 0]]

WaitStart(w) ==
    /\ waiter[w].pc = "idle"
    /\ rl.requestsCount < MaxWaits
    /\ waiter' = [waiter EXCEPT ![w] =
          [pc |-> "acquire", ctxDone |-> FALSE, wake |-> 0,
           res |-> "none", blocked |-> FALSE, taken |-> 0]]
    /\ UNCHANGED <<now, rl, granted, cacheVars, pipelineVars, extraVars>>

\* The context of a Wait in progress is cancelled or reaches its deadline.
WaitCancel(w) ==
    /\ waiter[w].pc # "idle"
    /\ ~waiter[w].ctxDone
    /\ waiter' = [waiter EXCEPT ![w].ctxDone = TRUE]
    /\ UNCHANGED <<now, rl, granted, cacheVars, pipelineVars, extraVars>>

\* Wait, lines 36-38: tryAcquire; on success Wait returns nil.
WaitAcquire(w) ==
    /\ waiter[w].pc = "acquire"
    /\ LET r == tryAcquire(rl, now)
           used == refill(rl, now).tokens - r.r.tokens
       IN  /\ rl' = r.r
           /\ waiter' = [waiter EXCEPT ![w] =
                 IF r.ok
                 THEN [@ EXCEPT !.pc = "idle", !.res = ErrNil,
                                !.taken = @ + used]
                 ELSE [@ EXCEPT !.pc = "throttled", !.blocked = TRUE,
                                !.taken = @ + used]]
           /\ granted' = IF r.ok THEN granted + 1 ELSE granted
    /\ UNCHANGED <<now, cacheVars, pipelineVars, extraVars>>

\* Wait, line 41: timeUntilNextToken, then the select starts.
WaitArm(w) ==
    /\ waiter[w].pc = "throttled"
    /\ waiter' = [waiter EXCEPT ![w].pc = "sleep",
                                ![w].wake = now + timeUntilNextToken(rl)]
    /\ UNCHANGED <<now, rl, granted, cacheVars, pipelineVars, extraVars>>

\* Wait, lines 43-45: the select takes ctx.Done() and Wait returns ctx.Err().
WaitDone(w) ==
    /\ waiter[w].pc = "sleep"
    /\ waiter[w].ctxDone
    /\ waiter' = [waiter EXCEPT ![w].pc = "idle", ![w].res = "ctx"]
    /\ UNCHANGED <<now, rl, granted, cacheVars, pipelineVars, extraVars>>

\* The timer case of the select that goes back to computing the wait time
\* instead of trying to acquire.
WaitTimer_SkipsAcquire(w) ==
    /\ waiter[w].pc = "sleep"
    /\ now >= waiter[w].wake
    /\ waiter' = [waiter EXCEPT ![w].pc = "throttled"]
    /\ UNCHANGED <<now, rl, granted, cacheVars, pipelineVars, extraVars>>

\* Wait, lines 46-48: the select takes the timer and the loop tries again.
WaitTimer(w) ==
    /\ waiter[w].pc = "sleep"
    /\ now >= waiter[w].wake
    /\ waiter' = [waiter EXCEPT ![w].pc = "acquire"]
    /\ UNCHANGED <<now, rl, granted, cacheVars, pipelineVars, extraVars>>

-----------------------------------------------------------------------------
(* TTL cache: internal/client/cache.go *)

CacheKeys == {"severities:list", "severity:sev_1"}
CacheValues == {"r1", "r2"}

\* entries is a map: a function whose domain is the set of keys present.
NewCache(ttl) == [entries |-> [k \in {} |-> "nil"], ttl |-> ttl]

\* Get that does not look at the expiry.
Get_NoExpiry(c, key, t) ==
    IF key \notin DOMAIN c.entries
    THEN [value |-> "nil", found |-> FALSE]
    ELSE [value |-> c.entries[key].Data, found |-> TRUE]

\* Get: (nil, false) for an absent or expired entry, else (Data, true).
Get(c, key, t) ==
    IF key \notin DOMAIN c.entries
    THEN [value |-> "nil", found |-> FALSE]
    ELSE IF t > c.entries[key].ExpiresAt
    THEN [value |-> "nil", found |-> FALSE]
    ELSE [value |-> c.entries[key].Data, found |-> TRUE]

\* Set that keeps the expiry of an entry it overwrites.
Set_KeepsExpiry(c, key, value, t) ==
    [c EXCEPT !.entries =
        [k \in DOMAIN c.entries \cup {key} |->
            IF k = key
            THEN [Data |-> value,
                  ExpiresAt |-> IF key \in DOMAIN c.entries
                                THEN c.entries[key].ExpiresAt
                                ELSE t + c.ttl]
            ELSE c.entries[k]]]

\* Set: stores a new entry that expires at time.Now().Add(ttl).
Set(c, key, value, t) ==
    [c EXCEPT !.entries =
        [k \in DOMAIN c.entries \cup {key} |->
            IF k = key
            THEN [Data |-> value, ExpiresAt |-> t + c.ttl]
            ELSE c.entries[k]]]

Clear(c) == [c EXCEPT !.entries = [k \in {} |-> "nil"]]

Delete(c, key) ==
    [c EXCEPT !.entries = [k \in DOMAIN c.entries \ {key} |-> c.entries[k]]]

\* CleanExpired that also removes the entries expiring right now.
CleanExpired_Inclusive(c, t) ==
    [c EXCEPT !.entries =
        [k \in {j \in DOMAIN c.entries : ~(t >= c.entries[j].ExpiresAt)}
            |-> c.entries[k]]]

\* CleanExpired: deletes the entries with now.After(ExpiresAt).
CleanExpired(c, t) ==
    [c EXCEPT !.entries =
        [k \in {j \in DOMAIN c.entries : ~(t > c.entries[j].ExpiresAt)}
            |-> c.entries[k]]]

\* Observation: the last operation called directly on the cache, with its
\* result, and for every key the value and time of the last Set not
\* followed by a Delete or Clear.
NoSet == [value |-> "nil", at |-> -1]

NoCacheLog ==
    [op |-> "none", key |-> "nil", found |-> FALSE, value |-> "nil",
     lastSet |-> [k \in CacheKeys |-> NoSet]]

CacheGet(key) ==
    /\ LET r == Get(cache, key, now)
       IN  cacheLog' = [cacheLog EXCEPT !.op = "Get", !.key = key,
                                        !.found = r.found, !.value = r.value]
    /\ UNCHANGED <<now, rl, cache, baseURL, sev, waitVars, extraVars, pipelineVars>>

CacheSet(key, value) ==
    /\ cache' = Set(cache, key, value, now)
    /\ cacheLog' = [cacheLog EXCEPT
                      !.op = "Set", !.key = key, !.found = FALSE,
                      !.value = value,
                      !.lastSet[key] = [value |-> value, at |-> now]]
    /\ UNCHANGED <<now, rl, baseURL, sev, waitVars, extraVars, pipelineVars>>

CacheClear ==
    /\ cache' = Clear(cache)
    /\ cacheLog' = [cacheLog EXCEPT
                      !.op = "Clear", !.key = "nil", !.found = FALSE,
                      !.value = "nil",
                      !.lastSet = [k \in CacheKeys |-> NoSet]]
    /\ UNCHANGED <<now, rl, baseURL, sev, waitVars, extraVars, pipelineVars>>

CacheDelete(key) ==
    /\ cache' = Delete(cache, key)
    /\ cacheLog' = [cacheLog EXCEPT
                      !.op = "Delete", !.key = key, !.found = FALSE,
                      !.value = "nil", !.lastSet[key] = NoSet]
    /\ UNCHANGED <<now, rl, baseURL, sev, waitVars, extraVars, pipelineVars>>

CacheCleanExpired ==
    /\ cache' = CleanExpired(cache, now)
    /\ cacheLog' = [cacheLog EXCEPT
                      !.op = "CleanExpired", !.key = "nil", !.found = FALSE,
                      !.value = "nil"]
    /\ UNCHANGED <<now, rl, baseURL, sev, waitVars, extraVars, pipelineVars>>

V1BaseURL == "https://api.incident.io/v1"
V2BaseURL == "https://api.incident.io/v2"

SevCallers == {"s1", "s2"}


-----------------------------------------------------------------------------
(* Read-through endpoints: internal/client/severities.go                   *)
(* ListSeverities uses the key "severities:list", GetSeverity(id) the key  *)
(* "severity:<id>"; apart from the key and the path both run the same      *)
(* steps.                                                                  *)

\* key: the cache key of the call; sends: network calls made by this call;
\* url: the base URL the last of them was sent to; body: the response body;
\* res: "cached", "fetched" or "error"; value: the value returned.
NewSevCall(key) ==
    [pc |-> "get", key |-> key, originalBaseURL |-> "nil", sends |-> 0,
     url |-> "nil", body |-> "nil", res |-> "none", value |-> "nil"]

IdleSev == [g \in SevCallers |-> [NewSevCall("nil") EXCEPT !.pc = "idle"]]

\* The goroutine of another endpoint: sends counts the network calls of
\* its DoRequest, url is the base URL the last of them was sent to.
IdleOther == [pc |-> "idle", sends |-> 0, url |-> "nil"]

\* After the return only the result of the call is looked at.
Returned(call) ==
    [NewSevCall("nil") EXCEPT !.pc = "idle", !.res = call.res,
                              !.value = call.value]

\* A response body json.Unmarshal rejects.
Malformed == "malformed"

SevStart(g, key) ==
    /\ sev[g].pc = "idle"
    /\ sev' = [sev EXCEPT ![g] = NewSevCall(key)]
    /\ UNCHANGED <<now, rl, cache, cacheLog, baseURL, waitVars, extraVars, pipelineVars>>

\* Lines 19-21 / 49-51: the cache is asked first; a hit is returned.
SevCacheGet(g) ==
    /\ sev[g].pc = "get"
    /\ LET r == Get(cache, sev[g].key, now)
       IN  sev' = [sev EXCEPT ![g] =
              IF r.found
              THEN Returned([@ EXCEPT !.res = "cached", !.value = r.value])
              ELSE [@ EXCEPT !.pc = "saveURL"]]
    /\ UNCHANGED <<now, rl, cache, cacheLog, baseURL, waitVars, extraVars, pipelineVars>>

\* Line 25 / 55: originalBaseURL := c.BaseURL().
SevReadBaseURL(g) ==
    /\ sev[g].pc = "saveURL"
    /\ sev' = [sev EXCEPT ![g].pc = "setURL", ![g].originalBaseURL = baseURL]
    /\ UNCHANGED <<now, rl, cache, cacheLog, baseURL, waitVars, extraVars, pipelineVars>>

\* Line 26 / 56: c.SetBaseURL("https://api.incident.io/v1").
SevSetBaseURL(g) ==
    /\ sev[g].pc = "setURL"
    /\ baseURL' = V1BaseURL
    /\ sev' = [sev EXCEPT ![g].pc = "request"]
    /\ UNCHANGED <<now, rl, cache, cacheLog, waitVars, extraVars, pipelineVars>>

\* Line 29 / 59, inside doRequest: one executeRequest, which builds its
\* endpoint from the baseURL of that moment; the retry loop allows
\* MaxRetries + 1 of them.
SevSend(g) ==
    /\ sev[g].pc = "request"
    /\ sev[g].sends <= retryConfig.MaxRetries
    /\ sev' = [sev EXCEPT ![g].sends = @ + 1, ![g].url = baseURL]
    /\ UNCHANGED <<now, rl, cache, cacheLog, baseURL, waitVars, extraVars, pipelineVars>>

\* Line 29-32 / 59-62: doRequest returns the body of a successful response,
\* or an error (with or without any network call made).
SevRequestEnd(g, body) ==
    /\ sev[g].pc = "request"
    /\ body # "nil" => sev[g].sends > 0
    /\ sev' = [sev EXCEPT ![g] =
          IF body = "nil"
          THEN [@ EXCEPT !.pc = "restore", !.res = "error"]
          ELSE [@ EXCEPT !.pc = "decode", !.body = body]]
    /\ UNCHANGED <<now, rl, cache, cacheLog, baseURL, waitVars, extraVars, pipelineVars>>

\* The same, storing the body whether or not it could be decoded.
SevDecode_CachesAnyBody(g) ==
    /\ sev[g].pc = "decode"
    /\ cache' = Set(cache, sev[g].key, sev[g].body, now)
    /\ cacheLog' = [cacheLog EXCEPT
                      !.lastSet[sev[g].key] =
                          [value |-> sev[g].body, at |-> now]]
    /\ sev' = [sev EXCEPT ![g] =
          IF sev[g].body = Malformed
          THEN [@ EXCEPT !.pc = "restore", !.res = "error"]
          ELSE [@ EXCEPT !.pc = "restore", !.res = "fetched",
                         !.value = sev[g].body]]
    /\ UNCHANGED <<now, rl, baseURL, waitVars, extraVars, pipelineVars>>

\* Lines 34-42 / 64-74: json.Unmarshal; on success the response is stored
\* in the cache and returned.
SevDecode(g) ==
    /\ sev[g].pc = "decode"
    /\ IF sev[g].body = Malformed
       THEN /\ sev' = [sev EXCEPT ![g].pc = "restore", ![g].res = "error"]
            /\ UNCHANGED <<cache, cacheLog>>
       ELSE /\ cache' = Set(cache, sev[g].key, sev[g].body, now)
            /\ cacheLog' = [cacheLog EXCEPT
                              !.lastSet[sev[g].key] =
                                  [value |-> sev[g].body, at |-> now]]
            /\ sev' = [sev EXCEPT ![g].pc = "restore", ![g].res = "fetched",
                                  ![g].value = sev[g].body]
    /\ UNCHANGED <<now, rl, baseURL, waitVars, extraVars, pipelineVars>>

\* Line 27 / 57: the deferred c.SetBaseURL(originalBaseURL), then return.
SevRestore(g) ==
    /\ sev[g].pc = "restore"
    /\ baseURL' = sev[g].originalBaseURL
    /\ sev' = [sev EXCEPT ![g] = Returned(@)]
    /\ UNCHANGED <<now, rl, cache, cacheLog, waitVars, extraVars, pipelineVars>>

SevTick ==
    /\ now < MaxSevTime
    /\ now' = now + 1
    /\ UNCHANGED <<rl, cacheVars, waitVars, extraVars, pipelineVars>>

-----------------------------------------------------------------------------
(* DoRequest of an endpoint other than severities, on the same client:     *)
(* internal/client/client.go.  baseURL is a plain field read and written   *)
(* without a lock; the two URLs have the same length, so a read that       *)
(* overlaps a write yields one of the two.                                 *)

\* DoRequest is called.
OtherStart ==
    /\ other.pc = "idle"
    /\ other' = [pc |-> "request", sends |-> 0, url |-> "nil"]
    /\ UNCHANGED <<now, rl, probe, mu, waitVars, cacheVars, pipelineVars>>

\* executeRequest, line 160: endpoint := c.baseURL + path, and the request
\* is sent there; the retry loop allows MaxRetries + 1 of them.
OtherSend ==
    /\ other.pc = "request"
    /\ other.sends <= retryConfig.MaxRetries
    /\ other' = [other EXCEPT !.sends = @ + 1, !.url = baseURL]
    /\ UNCHANGED <<now, rl, probe, mu, waitVars, cacheVars, pipelineVars>>

\* DoRequest returns.
OtherEnd ==
    /\ other.pc = "request"
    /\ other' = IdleOther
    /\ UNCHANGED <<now, rl, probe, mu, waitVars, cacheVars, pipelineVars>>

-----------------------------------------------------------------------------
(* Retry policy: internal/client/ratelimiter.go *)

RetryableStatusCodes == {408, 429, 500, 502, 503, 504}

\* ShouldRetry that looks at the status code even when there is an error.
ShouldRetry_StatusOnly(statusCode, err) ==
    statusCode \in retryConfig.RetryableStatusCodes

\* ShouldRetry(statusCode, err): err is ErrNil or an error; the receiver is
\* the client's retryConfig, whose RetryableStatusCodes map is the set of
\* the codes it maps to true.
ShouldRetry(statusCode, err) ==
    IF err # ErrNil THEN TRUE
    ELSE statusCode \in retryConfig.RetryableStatusCodes

RECURSIVE powLoop(_, _, _, _)
powLoop(base, n, i, result) ==
    IF i < n THEN powLoop(base, n, i + 1, result * base) ELSE result

\* pow whose loop runs once more.
pow_OneMore(base, exp) == powLoop(base, exp + 1, 0, 1)

pow(base, exp) == powLoop(base, exp, 0, 1)

\* CalculateBackoff without the cap at MaxBackoff.
CalculateBackoff_NoCap(rc, attempt) ==
    IF attempt <= 0
    THEN rc.InitialBackoff
    ELSE rc.InitialBackoff * pow(rc.Multiplier, attempt)

CalculateBackoff(rc, attempt) ==
    IF attempt <= 0
    THEN rc.InitialBackoff
    ELSE LET backoff == rc.InitialBackoff * pow(rc.Multiplier, attempt)
         IN  IF backoff > rc.MaxBackoff THEN rc.MaxBackoff ELSE backoff

-----------------------------------------------------------------------------
(* Direct calls of the retry policy's functions *)

\* DefaultRetryConfig, with durations in units of 100ms.
DefaultRetryConfig ==
    [MaxRetries |-> 3, InitialBackoff |-> 1, MaxBackoff |-> 100,
     Multiplier |-> 2, RetryableStatusCodes |-> RetryableStatusCodes]

\* Status codes ShouldRetry is called with.
StatusCodes == {0, 200, 404, 408, 429, 500, 502, 503, 504}

\* The configurations the functions are called on.
ProbeRetryConfigs ==
    {DefaultRetryConfig} \cup
    { [MaxRetries |-> 3, InitialBackoff |-> i, MaxBackoff |-> m,
       Multiplier |-> k, RetryableStatusCodes |-> codes] :
         i \in 1..MaxInitialBackoff, m \in {2, 100}, k \in 0..3,
         codes \in {RetryableStatusCodes, {}, {404, 503}} }

NoProbe == [fn |-> "none"]

CallShouldRetry(statusCode, err) ==
    /\ probe' = [fn |-> "ShouldRetry", statusCode |-> statusCode, err |-> err,
                 out |-> ShouldRetry(statusCode, err)]
    /\ UNCHANGED <<now, rl, other, mu, waitVars, cacheVars, pipelineVars>>

CallCalculateBackoff(attempt) ==
    /\ probe' = [fn |-> "CalculateBackoff", attempt |-> attempt,
                 out |-> CalculateBackoff(retryConfig, attempt),
                 next |-> CalculateBackoff(retryConfig, attempt + 1)]
    /\ UNCHANGED <<now, rl, other, mu, waitVars, cacheVars, pipelineVars>>

-----------------------------------------------------------------------------
(* Response formatting: internal/handlers/helpers.go                       *)
(* A response is taken by the length of its compact JSON; what the         *)
(* functions compute of their result is its length, whether it carries     *)
(* the truncation warning, and whether the call fails.                     *)

DefaultMaxResponseSize == 50 * 1024

\* truncateResponse reserves this much for the warning ...
WarningReserve == 500
\* ... and never cuts below this length.
MinTruncateAt == 1000

\* getMaxResponseSize: MCP_MAX_RESPONSE_SIZE when it is set to a positive
\* integer.  env.set: the variable is not empty; env.valid: Atoi accepts
\* it, with value env.size.
getMaxResponseSize(env) ==
    IF env.set /\ env.valid /\ env.size > 0
    THEN env.size ELSE DefaultMaxResponseSize

RECURSIVE Digits(_)
Digits(n) == IF n < 10 THEN 1 ELSE 1 + Digits(n \div 10)

\* Length of the warning object without its numbers:
\* {"_original_size":,"_reason":"Response size ( bytes) exceeded limit
\* ( bytes)","_suggestion":"...","_truncated_size":,"_warning":"Response
\* truncated"}.
WarningFixedLen == 216

WarningLen(originalSize, maxSize, truncatedSize) ==
    WarningFixedLen + 2 * Digits(originalSize) + Digits(maxSize)
        + Digits(truncatedSize)

\* Where the last comma of the cut text is: nowhere, at index 0, in the
\* middle, or at the end.
CommaPlaces == {"none", "first", "middle", "last"}

findLastComma(len, place) ==
    CASE place = "none" -> -1
      [] place = "first" -> 0
      [] place = "middle" -> len \div 2
      [] place = "last" -> len - 1

\* truncateResponse(jsonBytes, maxSize, _): jsonBytes has length jsonLen
\* and capacity jsonCap; comma says where the last comma of the cut text
\* is and closes whether the text then ends in '}' or ']'.  The slice
\* expression jsonBytes[:truncateAt] panics when truncateAt exceeds the
\* capacity.
truncateResponse(jsonLen, jsonCap, maxSize, comma, closes) ==
    LET truncateAt == IF maxSize - WarningReserve < MinTruncateAt
                      THEN MinTruncateAt
                      ELSE maxSize - WarningReserve
    IN  IF truncateAt > jsonCap
        THEN [err |-> "panic", len |-> 0, warning |-> FALSE]
        ELSE LET lastComma == findLastComma(truncateAt, comma)
                 truncated == IF lastComma > 0 THEN lastComma ELSE truncateAt
                 result == IF truncated > 0 /\ closes
                           THEN truncated - 1 ELSE truncated
             IN  [err |-> ErrNil,
                  len |-> result + WarningLen(jsonLen, maxSize, truncated),
                  warning |-> TRUE]

\* FormatJSONResponse for a response that json.Marshal accepts.
FormatJSONResponse(env, jsonLen, jsonCap, comma, closes) ==
    LET maxSize == getMaxResponseSize(env)
    IN  IF jsonLen > maxSize
        THEN truncateResponse(jsonLen, jsonCap, maxSize, comma, closes)
        ELSE [err |-> ErrNil, len |-> jsonLen, warning |-> FALSE]

\* The values of MCP_MAX_RESPONSE_SIZE and the response lengths tried;
\* json.Marshal returns a slice with no spare capacity or with some.
EnvSizes == {-1, 0, 1, 900, 1200, 1500, 2000, 5000}
EnvValues ==
    {[set |-> FALSE, valid |-> FALSE, size |-> 0],
     [set |-> TRUE, valid |-> FALSE, size |-> 0]}
        \cup {[set |-> TRUE, valid |-> TRUE, size |-> n] : n \in EnvSizes}
JSONLengths == {2, 950, 1201, 1600, 6000, 60000}
SpareCapacities == {0, 100}

CallFormatJSONResponse(env, jsonLen, spare, comma, closes) ==
    /\ probe' = [fn |-> "FormatJSONResponse", env |-> env,
                 maxSize |-> getMaxResponseSize(env), jsonLen |-> jsonLen,
                 out |-> FormatJSONResponse(env, jsonLen, jsonLen + spare,
                                            comma, closes)]
    /\ UNCHANGED <<now, rl, other, mu, waitVars, cacheVars, pipelineVars>>

-----------------------------------------------------------------------------
(* The remote dependency as one Execute sees it.  A script fixes the       *)
(* status of the k-th request of the call (k = 1, 2, ...); status 0 with   *)
(* an error is a transport failure.                                        *)

Transport == 0

Scripts == {"always503", "always404", "fail2", "flaky"}

Responses(script, k) ==
    CASE script = "always503" -> {503}
      [] script = "always404" -> {404}
      [] script = "fail2" -> IF k <= 2 THEN {503} ELSE {200}
      [] OTHER -> {200, Transport}

\* executeRequest: the status code and error it returns for a response.
\* With the context already cancelled http.Client.Do fails at once.
executeRequest(ctxDone, status) ==
    IF ctxDone \/ status = Transport
    THEN [statusCode |-> 0, err |-> "request failed"]
    ELSE IF status >= 400
    THEN [statusCode |-> status, err |-> "HTTP error"]
    ELSE [statusCode |-> status, err |-> ErrNil]

-----------------------------------------------------------------------------
(* Client.doRequestWithContext: internal/client/client.go *)

RetNone == "none"
RetBody == "response body"
RetRateLimiter == "rate limiter error"
RetCircuitOpen == "circuit breaker is open, service may be down"
RetContext == "context error"
RetRetryable == "RetryableError"

Executors == {"e1", "e2"}

NewExec(dep) ==
    [pc |-> "idle", dep |-> dep, ctxDone |-> FALSE, attempt |-> 0,
     statusCode |-> 0, lastErr |-> ErrNil, wake |-> 0,
     ret |-> RetNone, retAttempt |-> 0, retStatus |-> 0,
     \* observation only: executeRequest invocations of this call and the
     \* half-open period the running invocation was admitted in
     invocations |-> 0, epoch |-> 0]

\* Return from doRequestWithContext.
Return(e, kind) ==
    [e EXCEPT !.pc = "done", !.ret = kind]

\* The retry test written attempt <= MaxRetries: one attempt too many.
AfterFailure_OneAttemptMore(e, statusCode, err) ==
    LET e1 == [e EXCEPT !.statusCode = statusCode, !.lastErr = err]
    IN  IF /\ e1.attempt <= retryConfig.MaxRetries
           /\ ShouldRetry(statusCode, err)
        THEN [e1 EXCEPT !.pc = "backoff",
                        !.wake = now + CalculateBackoff(retryConfig, e1.attempt)]
        ELSE [e1 EXCEPT !.pc = "done", !.ret = RetRetryable,
                        !.retAttempt = retryConfig.MaxRetries + 1,
                        !.retStatus = statusCode]

\* The retry test written attempt + 1 < MaxRetries: one attempt too few.
AfterFailure_OneAttemptShort(e, statusCode, err) ==
    LET e1 == [e EXCEPT !.statusCode = statusCode, !.lastErr = err]
    IN  IF /\ e1.attempt + 1 < retryConfig.MaxRetries
           /\ ShouldRetry(statusCode, err)
        THEN [e1 EXCEPT !.pc = "backoff",
                        !.wake = now + CalculateBackoff(retryConfig, e1.attempt)]
        ELSE [e1 EXCEPT !.pc = "done", !.ret = RetRetryable,
                        !.retAttempt = retryConfig.MaxRetries + 1,
                        !.retStatus = statusCode]

\* Lines 125-155: the call failed with err; either sleep before the next
\* attempt or leave the loop and return the RetryableError.
AfterFailure(e, statusCode, err) ==
    LET e1 == [e EXCEPT !.statusCode = statusCode, !.lastErr = err]
    IN  IF /\ e1.attempt < retryConfig.MaxRetries
           /\ ShouldRetry(statusCode, err)
        THEN [e1 EXCEPT !.pc = "backoff",
                        !.wake = now + CalculateBackoff(retryConfig, e1.attempt)]
        ELSE [Return(e1, RetRetryable) EXCEPT
                        !.retAttempt = retryConfig.MaxRetries + 1,
                        !.retStatus = statusCode]

\* doRequest / doRequestWithContext is entered.
ExecStart(c) ==
    /\ exec[c].pc = "idle"
    /\ exec' = [exec EXCEPT ![c].pc = "acquire"]
    /\ UNCHANGED <<now, cb, trial, caller, rl, retryConfig, waitVars, extraVars, cacheVars>>

\* The caller's context is cancelled (or its deadline passes).
Cancel(c) ==
    /\ exec[c].pc \notin {"idle", "done"}
    /\ ~exec[c].ctxDone
    /\ exec' = [exec EXCEPT ![c].ctxDone = TRUE]
    /\ UNCHANGED <<now, cb, trial, caller, rl, retryConfig, waitVars, extraVars, cacheVars>>

\* RateLimiter.Wait, line 36: tryAcquire.
WaitTryAcquire(c) ==
    /\ exec[c].pc = "acquire"
    /\ LET r == tryAcquire(rl, now)
       IN  /\ rl' = r.r
           /\ exec' = [exec EXCEPT ![c].pc = IF r.ok THEN "call" ELSE "throttled"]
    /\ UNCHANGED <<now, cb, trial, caller, retryConfig, waitVars, extraVars, cacheVars>>

\* RateLimiter.Wait, line 41: timeUntilNextToken, then the select starts.
WaitTimeUntilNextToken(c) ==
    /\ exec[c].pc = "throttled"
    /\ exec' = [exec EXCEPT ![c].pc = "rlsleep",
                            ![c].wake = now + timeUntilNextToken(rl)]
    /\ UNCHANGED <<now, cb, trial, caller, rl, retryConfig, waitVars, extraVars, cacheVars>>

\* RateLimiter.Wait, lines 43-48: the select takes a ready case.
WaitSelectDone(c) ==
    /\ exec[c].pc = "rlsleep"
    /\ exec[c].ctxDone
    /\ exec' = [exec EXCEPT ![c] = Return(@, RetRateLimiter)]
    /\ UNCHANGED <<now, cb, trial, caller, rl, retryConfig, waitVars, extraVars, cacheVars>>

WaitSelectTimer(c) ==
    /\ exec[c].pc = "rlsleep"
    /\ now >= exec[c].wake
    /\ exec' = [exec EXCEPT ![c].pc = "acquire"]
    /\ UNCHANGED <<now, cb, trial, caller, rl, retryConfig, waitVars, extraVars, cacheVars>>

\* Lines 109-118: circuitBreaker.Call up to the start of fn.
ExecCallBegin(c) ==
    /\ exec[c].pc = "call"
    /\ LET r == beforeRequest(cb, now)
           tr == TrialAfterAdmission(cb, r)
           e == exec[c]
       IN  /\ cb' = r.b
           /\ trial' = tr
           /\ exec' = [exec EXCEPT ![c] =
                 IF r.err = ErrNil
                 THEN [e EXCEPT !.pc = "infn", !.invocations = @ + 1,
                                !.epoch = EpochOfAdmission(r.b, tr)]
                 ELSE IF r.err = ErrCircuitOpen
                 THEN Return(e, RetCircuitOpen)
                 ELSE AfterFailure(e, e.statusCode, r.err)]
    /\ UNCHANGED <<now, caller, rl, retryConfig, waitVars, extraVars, cacheVars>>

\* fn (executeRequest) returns, afterRequest records the outcome, and
\* lines 116-147 act on the result.
ExecCallEnd(c) ==
    /\ exec[c].pc = "infn"
    /\ \E status \in Responses(exec[c].dep, exec[c].invocations) :
         LET e == exec[c]
             out == executeRequest(e.ctxDone, status)
             b2 == afterRequest(cb, now, out.err # ErrNil)
         IN  /\ cb' = b2
             /\ trial' = TrialAfterOutcome(cb, b2, out.err # ErrNil, e.epoch)
             /\ exec' = [exec EXCEPT ![c] =
                   IF out.err = ErrNil
                   THEN Return([e EXCEPT !.statusCode = out.statusCode], RetBody)
                   ELSE AfterFailure(e, out.statusCode, out.err)]
    /\ UNCHANGED <<now, caller, rl, retryConfig, waitVars, extraVars, cacheVars>>

\* Lines 137-142: the backoff select takes a ready case.
BackoffSelectDone(c) ==
    /\ exec[c].pc = "backoff"
    /\ exec[c].ctxDone
    /\ exec' = [exec EXCEPT ![c] = Return(@, RetContext)]
    /\ UNCHANGED <<now, cb, trial, caller, rl, retryConfig, waitVars, extraVars, cacheVars>>

BackoffSelectTimer(c) ==
    /\ exec[c].pc = "backoff"
    /\ now >= exec[c].wake
    /\ exec' = [exec EXCEPT ![c].pc = "acquire", ![c].attempt = @ + 1]
    /\ UNCHANGED <<now, cb, trial, caller, rl, retryConfig, waitVars, extraVars, cacheVars>>

ExecTick ==
    /\ now < MaxExecTime
    /\ now' = now + 1
    /\ UNCHANGED <<cb, trial, caller, rl, retryConfig, exec, waitVars, extraVars, cacheVars>>

RetryConfigs ==
    { [MaxRetries |-> n, InitialBackoff |-> 1, MaxBackoff |-> 2, Multiplier |-> 2,
       RetryableStatusCodes |-> RetryableStatusCodes]
        : n \in {0, 2, 3} }

Init ==
    /\ now = 0
    /\ waiter = IdleWaiters
    /\ granted = 0
    /\ cache = NewCache(MaxTTL)
    /\ cacheLog = NoCacheLog
    /\ baseURL = V2BaseURL
    /\ sev = IdleSev
    /\ other = IdleOther
    /\ probe = NoProbe
    /\ mu = FreeMu
    /\ cb \in {NewCircuitBreaker(cfg) : cfg \in ClientBreakerConfigs}
    /\ trial = NoTrial
    /\ caller = [c \in Callers |-> [pc |-> "idle", res |-> "none", epoch |-> 0]]
    /\ rl = NewRateLimiter(BucketSize, TicksPerToken)
    /\ retryConfig \in RetryConfigs
    /\ \E dep \in Scripts :
         exec = [c \in Executors |-> NewExec(IF c = "e1" THEN dep ELSE "flaky")]

Next ==
    \/ \E c \in Executors : ExecStart(c)
    \/ \E c \in Executors : Cancel(c)
    \/ \E c \in Executors : WaitTryAcquire(c)
    \/ \E c \in Executors : WaitTimeUntilNextToken(c)
    \/ \E c \in Executors : WaitSelectDone(c)
    \/ \E c \in Executors : WaitSelectTimer(c)
    \/ \E c \in Executors : ExecCallBegin(c)
    \/ \E c \in Executors : ExecCallEnd(c)
    \/ \E c \in Executors : BackoffSelectDone(c)
    \/ \E c \in Executors : BackoffSelectTimer(c)
    \/ ExecTick

Spec == Init /\ [][Next]_vars

-----------------------------------------------------------------------------
(* ListSeverities through the client, with the mutexes made explicit.      *)
(* Every method that starts with mu.Lock() / mu.RLock() and a deferred     *)
(* unlock is two steps: the lock is taken, then the body runs and the      *)
(* method returns, which releases the lock.  Between the two the goroutine *)
(* can be descheduled.  The goroutines are those of exec; the key read and *)
(* written is "severities:list".                                           *)

SeveritiesKey == "severities:list"
SeveritiesValue == "r1"

\* The mutex the goroutine needs next, and whether for reading or writing.
LockPoints ==
    [cacheGet |-> [m |-> "cache", mode |-> "r"],
     acquire |-> [m |-> "rl", mode |-> "w"],
     throttled |-> [m |-> "rl", mode |-> "w"],
     call |-> [m |-> "cb", mode |-> "w"],
     record |-> [m |-> "cb", mode |-> "w"],
     cacheSet |-> [m |-> "cache", mode |-> "w"]]

\* The goroutine is blocked in a select or in the network call.
Suspended(c) == exec[c].pc \in {"rlsleep", "infn", "backoff"}

Holds(c, m) == mu[m].w = c \/ c \in mu[m].r

\* mu.Unlock() / mu.RUnlock() by the goroutine that holds the lock.
Unlock(c, m) ==
    [mu EXCEPT ![m] = [w |-> IF @.w = c THEN "free" ELSE @.w, r |-> @.r \ {c}]]

\* ListSeverities is called.
LkStart(c) ==
    /\ exec[c].pc = "idle"
    /\ exec' = [exec EXCEPT ![c].pc = "cacheGet"]
    /\ UNCHANGED <<now, rl, cb, trial, caller, retryConfig, other, probe, mu,
                   waitVars, cacheVars>>

\* mu.Lock() or mu.RLock() at the head of the method about to run: a write
\* lock needs the mutex free of writer and readers, a read lock free of a
\* writer.
LkLock(c) ==
    /\ exec[c].pc \in DOMAIN LockPoints
    /\ LET p == LockPoints[exec[c].pc]
       IN  /\ ~Holds(c, p.m)
           /\ mu[p.m].w = "free"
           /\ p.mode = "w" => mu[p.m].r = {}
           /\ mu' = [mu EXCEPT ![p.m] =
                        IF p.mode = "w" THEN [@ EXCEPT !.w = c]
                        ELSE [@ EXCEPT !.r = @ \cup {c}]]
    /\ UNCHANGED <<now, rl, other, probe, waitVars, cacheVars, pipelineVars>>

\* Cache.Get, then severities.go lines 19-21: a hit is returned.
LkCacheGet(c) ==
    /\ exec[c].pc = "cacheGet"
    /\ Holds(c, "cache")
    /\ exec' = [exec EXCEPT ![c] =
          IF Get(cache, SeveritiesKey, now).found
          THEN Return(@, RetBody)
          ELSE [@ EXCEPT !.pc = "acquire"]]
    /\ mu' = Unlock(c, "cache")
    /\ UNCHANGED <<now, rl, cb, trial, caller, retryConfig, other, probe,
                   waitVars, cacheVars>>

\* RateLimiter.tryAcquire.
LkTryAcquire(c) ==
    /\ exec[c].pc = "acquire"
    /\ Holds(c, "rl")
    /\ LET r == tryAcquire(rl, now)
       IN  /\ rl' = r.r
           /\ exec' = [exec EXCEPT ![c].pc = IF r.ok THEN "call" ELSE "throttled"]
    /\ mu' = Unlock(c, "rl")
    /\ UNCHANGED <<now, cb, trial, caller, retryConfig, other, probe,
                   waitVars, cacheVars>>

\* timeUntilNextToken that returns with the mutex still locked.
LkTimeUntilNextToken_NoUnlock(c) ==
    /\ exec[c].pc = "throttled"
    /\ Holds(c, "rl")
    /\ exec' = [exec EXCEPT ![c].pc = "rlsleep",
                            ![c].wake = now + timeUntilNextToken(rl)]
    /\ UNCHANGED <<now, rl, cb, trial, caller, retryConfig, other, probe, mu,
                   waitVars, cacheVars>>

\* RateLimiter.timeUntilNextToken, then the select of Wait starts.
LkTimeUntilNextToken(c) ==
    /\ exec[c].pc = "throttled"
    /\ Holds(c, "rl")
    /\ exec' = [exec EXCEPT ![c].pc = "rlsleep",
                            ![c].wake = now + timeUntilNextToken(rl)]
    /\ mu' = Unlock(c, "rl")
    /\ UNCHANGED <<now, rl, cb, trial, caller, retryConfig, other, probe,
                   waitVars, cacheVars>>

\* CircuitBreaker.beforeRequest; an admitted call starts running fn.
LkBeforeRequest(c) ==
    /\ exec[c].pc = "call"
    /\ Holds(c, "cb")
    /\ LET r == beforeRequest(cb, now)
           e == exec[c]
       IN  /\ cb' = r.b
           /\ exec' = [exec EXCEPT ![c] =
                 IF r.err = ErrNil
                 THEN [e EXCEPT !.pc = "infn", !.invocations = @ + 1]
                 ELSE IF r.err = ErrCircuitOpen
                 THEN Return(e, RetCircuitOpen)
                 ELSE AfterFailure(e, e.statusCode, r.err)]
    /\ mu' = Unlock(c, "cb")
    /\ UNCHANGED <<now, rl, trial, caller, retryConfig, other, probe,
                   waitVars, cacheVars>>

\* fn (executeRequest) returns its status code and error.
LkFnReturn(c) ==
    /\ exec[c].pc = "infn"
    /\ \E status \in Responses(exec[c].dep, exec[c].invocations) :
         LET out == executeRequest(exec[c].ctxDone, status)
         IN  exec' = [exec EXCEPT ![c].pc = "record",
                                  ![c].statusCode = out.statusCode,
                                  ![c].lastErr = out.err]
    /\ UNCHANGED <<now, rl, cb, trial, caller, retryConfig, other, probe, mu,
                   waitVars, cacheVars>>

\* CircuitBreaker.afterRequest, then client.go lines 116-147 act on the
\* result of Call; a response body is decoded by ListSeverities.
LkAfterRequest(c) ==
    /\ exec[c].pc = "record"
    /\ Holds(c, "cb")
    /\ LET e == exec[c]
       IN  /\ cb' = afterRequest(cb, now, e.lastErr # ErrNil)
           /\ exec' = [exec EXCEPT ![c] =
                 IF e.lastErr = ErrNil
                 THEN [e EXCEPT !.pc = "cacheSet"]
                 ELSE AfterFailure(e, e.statusCode, e.lastErr)]
    /\ mu' = Unlock(c, "cb")
    /\ UNCHANGED <<now, rl, trial, caller, retryConfig, other, probe,
                   waitVars, cacheVars>>

\* Cache.Set, then ListSeverities returns the response.
LkCacheSet(c) ==
    /\ exec[c].pc = "cacheSet"
    /\ Holds(c, "cache")
    /\ cache' = Set(cache, SeveritiesKey, SeveritiesValue, now)
    /\ exec' = [exec EXCEPT ![c] = Return(@, RetBody)]
    /\ mu' = Unlock(c, "cache")
    /\ UNCHANGED <<now, rl, cb, trial, caller, retryConfig, other, probe,
                   waitVars, cacheLog, baseURL, sev>>

\* The step of goroutine c that runs the body of the method it has locked.
LkBody(c) ==
    \/ LkCacheGet(c)
    \/ LkTryAcquire(c)
    \/ LkTimeUntilNextToken(c)
    \/ LkBeforeRequest(c)
    \/ LkAfterRequest(c)
    \/ LkCacheSet(c)

InitLock ==
    /\ now = 0
    /\ waiter = IdleWaiters
    /\ granted = 0
    /\ cache = NewCache(MaxTTL)
    /\ cacheLog = NoCacheLog
    /\ baseURL = V2BaseURL
    /\ sev = IdleSev
    /\ other = IdleOther
    /\ probe = NoProbe
    /\ mu = FreeMu
    /\ cb = NewCircuitBreaker(DefaultCircuitBreakerConfig)
    /\ trial = NoTrial
    /\ caller = [c \in Callers |-> [pc |-> "idle", res |-> "none", epoch |-> 0]]
    /\ rl = NewRateLimiter(BucketSize, TicksPerToken)
    /\ retryConfig \in {rc \in RetryConfigs : rc.MaxRetries = 2}
    /\ exec = [c \in Executors |-> NewExec("flaky")]

NextLock ==
    \/ \E c \in Executors : LkStart(c)
    \/ \E c \in Executors : Cancel(c)
    \/ \E c \in Executors : LkLock(c)
    \/ \E c \in Executors : LkCacheGet(c)
    \/ \E c \in Executors : LkTryAcquire(c)
    \/ \E c \in Executors : LkTimeUntilNextToken(c)
    \/ \E c \in Executors : WaitSelectDone(c)
    \/ \E c \in Executors : WaitSelectTimer(c)
    \/ \E c \in Executors : LkBeforeRequest(c)
    \/ \E c \in Executors : LkFnReturn(c)
    \/ \E c \in Executors : LkAfterRequest(c)
    \/ \E c \in Executors : BackoffSelectDone(c)
    \/ \E c \in Executors : BackoffSelectTimer(c)
    \/ \E c \in Executors : LkCacheSet(c)
    \/ ExecTick

SpecLock == InitLock /\ [][NextLock]_vars

InitCB ==
    /\ now = 0
    /\ waiter = IdleWaiters
    /\ granted = 0
    /\ cache = NewCache(MaxTTL)
    /\ cacheLog = NoCacheLog
    /\ baseURL = V2BaseURL
    /\ sev = IdleSev
    /\ other = IdleOther
    /\ probe = NoProbe
    /\ mu = FreeMu
    /\ cb \in {NewCircuitBreaker(cfg) : cfg \in CircuitBreakerConfigs}
    /\ trial = NoTrial
    /\ caller = [c \in Callers |-> [pc |-> "idle", res |-> "none", epoch |-> 0]]
    /\ rl = NewRateLimiter(BucketSize, TicksPerToken)
    /\ retryConfig \in {rc \in RetryConfigs : rc.MaxRetries = 0}
    /\ exec = [c \in Executors |-> NewExec("flaky")]

NextCB ==
    \/ \E c \in Callers : CallBegin(c)
    \/ \E c \in Callers : CallEnd(c, TRUE)
    \/ \E c \in Callers : CallEnd(c, FALSE)
    \/ ResetBreaker
    \/ Tick

SpecCB == InitCB /\ [][NextCB]_vars

-----------------------------------------------------------------------------
(* The breaker after the dependency has recovered: it has just been        *)
(* tripped by MaxFailures failed calls, possibly with a call admitted      *)
(* before them still running, and from now on fn returns nil.              *)

\* The breaker after n calls that were admitted and failed at time t.
RECURSIVE FailedCalls(_, _, _)
FailedCalls(b, n, t) ==
    IF n = 0 THEN b
    ELSE FailedCalls(afterRequest(beforeRequest(b, t).b, t, TRUE), n - 1, t)

InitRecover ==
    /\ now = 0
    /\ waiter = IdleWaiters
    /\ granted = 0
    /\ cache = NewCache(MaxTTL)
    /\ cacheLog = NoCacheLog
    /\ baseURL = V2BaseURL
    /\ sev = IdleSev
    /\ other = IdleOther
    /\ probe = NoProbe
    /\ mu = FreeMu
    /\ rl = NewRateLimiter(BucketSize, TicksPerToken)
    /\ retryConfig \in {rc \in RetryConfigs : rc.MaxRetries = 0}
    /\ exec = [c \in Executors |-> NewExec("flaky")]
    /\ \E cfg \in CircuitBreakerConfigs, running \in SUBSET {"g2"} :
          LET b0 == NewCircuitBreaker(cfg)
              b1 == IF running = {} THEN b0 ELSE beforeRequest(b0, 0).b
          IN  /\ cb = FailedCalls(b1, cfg.MaxFailures, 0)
              /\ trial = [NoTrial EXCEPT !.streak = cfg.MaxFailures,
                                         !.last = "trip"]
              /\ caller = [c \in Callers |->
                    IF c \in running
                    THEN [pc |-> "infn", res |-> "none", epoch |-> 0]
                    ELSE [pc |-> "idle", res |-> "none", epoch |-> 0]]

NextRecover ==
    \/ \E c \in Callers : CallBegin(c)
    \/ \E c \in Callers : CallEnd(c, FALSE)
    \/ Tick

\* Callers keep issuing calls, every call of fn returns, time advances.
FairRecover ==
    /\ WF_vars(Tick)
    /\ \A c \in Callers : WF_vars(CallBegin(c)) /\ WF_vars(CallEnd(c, FALSE))

SpecRecover == InitRecover /\ [][NextRecover]_vars /\ FairRecover

-----------------------------------------------------------------------------
(* The rate limiter under concurrent Wait calls *)

InitRL ==
    /\ now = 0
    /\ rl = NewRateLimiter(BucketSize, TicksPerToken)
    /\ waiter = IdleWaiters
    /\ granted = 0
    /\ cb = NewCircuitBreaker(DefaultCircuitBreakerConfig)
    /\ trial = NoTrial
    /\ caller = [c \in Callers |-> [pc |-> "idle", res |-> "none", epoch |-> 0]]
    /\ retryConfig \in {rc \in RetryConfigs : rc.MaxRetries = 0}
    /\ exec = [c \in Executors |-> NewExec("flaky")]
    /\ cache = NewCache(MaxTTL)
    /\ cacheLog = NoCacheLog
    /\ baseURL = V2BaseURL
    /\ sev = IdleSev
    /\ other = IdleOther
    /\ probe = NoProbe
    /\ mu = FreeMu

NextRL ==
    \/ \E w \in Waiters : WaitStart(w)
    \/ \E w \in Waiters : WaitCancel(w)
    \/ \E w \in Waiters : WaitAcquire(w)
    \/ \E w \in Waiters : WaitArm(w)
    \/ \E w \in Waiters : WaitDone(w)
    \/ \E w \in Waiters : WaitTimer(w)
    \/ Tick

SpecRL == InitRL /\ [][NextRL]_vars

-----------------------------------------------------------------------------
(* The rate limiter with no cancellation, time without end and fair        *)
(* scheduling.  Up to MaxTime the clock advances; from then on time is     *)
(* measured from an origin that moves with it: instead of now growing,     *)
(* lastRefill and the timers' deadlines move one tick into the past.  A    *)
(* deadline already due stays due, and an elapsed time of maxTokens or     *)
(* more refills the bucket to the cap whatever its length, so both are     *)
(* kept at those values.                                                   *)

Max(a, b) == IF a > b THEN a ELSE b

TickOn ==
    /\ IF now < MaxTime
       THEN /\ now' = now + 1
            /\ UNCHANGED <<rl, waiter>>
       ELSE /\ now' = now
            /\ rl' = [rl EXCEPT !.lastRefill =
                                   Max(@ - 1, now - rl.maxTokens)]
            /\ waiter' = [w \in Waiters |->
                             [waiter[w] EXCEPT !.wake = Max(@ - 1, 0)]]
            /\ \/ rl' # rl
               \/ waiter' # waiter
    /\ UNCHANGED <<granted, cacheVars, pipelineVars, extraVars>>

NextRLFair ==
    \/ \E w \in Waiters : WaitStart(w)
    \/ \E w \in Waiters : WaitAcquire(w)
    \/ \E w \in Waiters : WaitArm(w)
    \/ \E w \in Waiters : WaitTimer(w)
    \/ TickOn

\* Every goroutine that can run does run, every timer that is due fires,
\* and time passes.
FairRL ==
    /\ WF_vars(TickOn)
    /\ \A w \in Waiters :
          /\ WF_vars(WaitAcquire(w))
          /\ WF_vars(WaitArm(w))
          /\ WF_vars(WaitTimer(w))

SpecRLFair == InitRL /\ [][NextRLFair]_vars /\ FairRL

-----------------------------------------------------------------------------
(* Steps of one goroutine, as seen in a transition *)

\* Executor c returns from doRequestWithContext in this step.
ReturnsNow(c) == exec[c].pc # "done" /\ exec'[c].pc = "done"

\* Executor c passes through circuitBreaker.Call's admission in this step.
ExecAttempts(c) == exec[c].pc = "call" /\ exec'[c].pc # "call"

\* Goroutine c calls Call and gets past (or is turned away by) admission.
Attempts(c) == caller[c].pc = "idle" /\ caller'[c] # caller[c]

\* fn returns in goroutine c and the outcome is recorded.
RecordsFailure(c) ==
    caller[c].pc = "infn" /\ caller'[c].pc = "idle" /\ caller'[c].res = "error"

RecordsSuccess(c) ==
    caller[c].pc = "infn" /\ caller'[c].pc = "idle" /\ caller'[c].res = ErrNil

CountersZero(b) ==
    /\ b.failures = 0
    /\ b.successes = 0
    /\ b.requests = 0
    /\ b.consecutiveFailures = 0
    /\ b.halfOpenRequests = 0

-----------------------------------------------------------------------------
(* Claims about the request executor (specification Spec) *)

\* C1: when the breaker rejects a call inside doRequestWithContext, with
\* either ErrCircuitOpen or ErrTooManyRequests, the executor returns at once
\* with the distinguished breaker error: no backoff sleep, no further
\* attempt, no network invocation, no RetryableError.
C1_BreakerRejectionAborts ==
    [][\A c \in Executors :
         (ExecAttempts(c) /\ beforeRequest(cb, now).err # ErrNil)
            => /\ exec'[c].pc = "done"
               /\ exec'[c].ret = RetCircuitOpen
               /\ exec'[c].invocations = exec[c].invocations]_vars

\* C2: a non-2xx status outside the retryable set (404) is surfaced at once:
\* exactly one network invocation, no backoff sleep, a terminal error.
C2_NonRetryableNotRetried ==
    \A c \in Executors :
       exec[c].statusCode = 404
          => /\ exec[c].pc = "done"
             /\ exec[c].ret = RetRetryable
             /\ exec[c].invocations = 1

\* C3: once the caller's cancellation signal has fired, the executor starts
\* no further attempt and no further network invocation, and what it
\* returns is an error.
C3_NoAttemptAfterCancel ==
    [][\A c \in Executors :
         exec[c].ctxDone
            => /\ exec'[c].invocations = exec[c].invocations
               /\ exec'[c].attempt = exec[c].attempt
               /\ exec'[c].ret # RetBody]_vars

\* The breaker has been closed ever since it was constructed.
NeverTripped == cb.state = StateClosed /\ trial.period = 0

\* C4: against a dependency that answers 503 every time, with
\* MaxRetries = N and a breaker that stays closed, an uncancelled Execute
\* makes exactly N+1 network invocations and returns a RetryableError with
\* Attempt = N+1 and StatusCode = 503.
C4_RetryExhausted ==
    \A c \in Executors :
       (/\ exec[c].pc = "done"
        /\ exec[c].dep = "always503"
        /\ ~exec[c].ctxDone
        /\ NeverTripped)
          => /\ exec[c].ret = RetRetryable
             /\ exec[c].invocations = retryConfig.MaxRetries + 1
             /\ exec[c].retAttempt = retryConfig.MaxRetries + 1
             /\ exec[c].retStatus = 503

C4_Witness ==
    \E c \in Executors :
       /\ exec[c].pc = "done"
       /\ exec[c].dep = "always503"
       /\ ~exec[c].ctxDone
       /\ NeverTripped
       /\ retryConfig.MaxRetries = 2
       /\ exec[c].invocations = 3
       /\ exec[c].ret = RetRetryable

\* The scenario of C5: an uncancelled Execute returns, its dependency fails
\* its first two requests with 503 and answers the third, MaxRetries = 3,
\* MaxFailures > 2, and it is the only call the (fresh) breaker has seen.
C5_Scenario(c) ==
    /\ ReturnsNow(c)
    /\ exec[c].dep = "fail2"
    /\ ~exec'[c].ctxDone
    /\ retryConfig.MaxRetries = 3
    /\ cb.config.MaxFailures > 2
    /\ \A d \in Executors \ {c} : exec[d].pc = "idle"

C5_Outcome(c) ==
    /\ exec'[c].ret = RetBody
    /\ exec'[c].invocations = 3
    /\ cb'.state = StateClosed

\* C5 as stated: in that scenario Execute returns the successful result
\* after exactly three network invocations and the breaker is still closed
\* when it returns.
C5_Original ==
    [][\A c \in Executors : C5_Scenario(c) => C5_Outcome(c)]_vars

\* C5, amended: the same, provided two requests cannot meet the failure-rate
\* condition (MinRequests > 2).
C5_SucceedsOnThirdAttempt ==
    [][\A c \in Executors :
         (C5_Scenario(c) /\ cb.config.MinRequests > 2) => C5_Outcome(c)]_vars

C5_Witness ==
    \E c \in Executors :
       /\ exec[c].pc = "done"
       /\ exec[c].dep = "fail2"
       /\ ~exec[c].ctxDone
       /\ retryConfig.MaxRetries = 3
       /\ cb.config.MaxFailures > 2
       /\ cb.config.MinRequests > 2
       /\ \A d \in Executors \ {c} : exec[d].pc = "idle"
       /\ exec[c].ret = RetBody
       /\ exec[c].invocations = 3
       /\ cb.state = StateClosed
       /\ cb.failures = 2

-----------------------------------------------------------------------------
(* Claims about the circuit breaker (specification SpecCB) *)

\* C6: starting from closed, the MaxFailures-th consecutive failed call
\* moves the breaker to open, and a call made while it is open and the
\* timeout has not elapsed returns ErrCircuitOpen without running fn and
\* without touching the breaker.
C6_OpensAfterMaxFailures ==
    [][\A c \in Callers :
         /\ (/\ RecordsFailure(c)
             /\ cb.state = StateClosed
             /\ trial.streak + 1 >= cb.config.MaxFailures)
               => cb'.state = StateOpen
         /\ (/\ Attempts(c)
             /\ cb.state = StateOpen
             /\ now - cb.lastStateChange <= cb.config.Timeout)
               => /\ caller'[c].res = ErrCircuitOpen
                  /\ caller'[c].pc = "idle"
                  /\ cb' = cb]_vars

C6_Witness ==
    /\ cb.state = StateOpen
    /\ trial.period = 0
    /\ trial.streak = cb.config.MaxFailures
    /\ cb.requests < cb.config.MinRequests
    /\ trial.last = ErrCircuitOpen
    /\ \E c \in Callers : caller[c].res = ErrCircuitOpen

\* C7: a call attempted while the breaker is open is admitted, moving the
\* breaker to half-open with the half-open counter restarted, if more than
\* Timeout has passed since the last state change; otherwise it is rejected
\* with ErrCircuitOpen and the breaker stays open.
C7_OpenAdmission ==
    [][\A c \in Callers :
         (Attempts(c) /\ cb.state = StateOpen)
            => IF now - cb.lastStateChange > cb.config.Timeout
               THEN /\ cb'.state = StateHalfOpen
                    /\ cb'.halfOpenRequests = 1
                    /\ cb'.lastStateChange = now
                    /\ caller'[c].pc = "infn"
               ELSE /\ caller'[c].res = ErrCircuitOpen
                    /\ caller'[c].pc = "idle"
                    /\ cb'.state = StateOpen]_vars

C7_Witness ==
    /\ cb.state = StateHalfOpen
    /\ trial.last = "admit"
    /\ trial.admitted = 1
    /\ \E c \in Callers : caller[c].pc = "infn" /\ caller[c].epoch = trial.period
    /\ \E d \in Callers : caller[d].res = ErrCircuitOpen

\* C8: a failure recorded while the breaker is half-open moves it to open
\* and restamps the state change, so that every call is rejected with
\* ErrCircuitOpen until more than Timeout has passed since that failure.
C8_HalfOpenFailureReopens ==
    [][\A c \in Callers :
         (RecordsFailure(c) /\ cb.state = StateHalfOpen)
            => /\ cb'.state = StateOpen
               /\ cb'.lastStateChange = now
               /\ \A t \in now .. (now + cb.config.Timeout) :
                     beforeRequest(cb', t).err = ErrCircuitOpen]_vars

C8_Witness ==
    /\ trial.last = "reopen"
    /\ cb.state = StateOpen
    /\ cb.lastStateChange = now
    /\ now >= 2

\* C9: from open, once the timeout has elapsed, non-overlapping successful
\* calls keep the breaker half-open until HalfOpenMaxRequests of them
\* (counting the one that moved it to half-open) have succeeded; the last
\* of them closes the breaker with all counters zero.
C9_ClosesAfterTrialSuccesses ==
    [][\A c \in Callers :
         (/\ RecordsSuccess(c)
          /\ cb.state = StateHalfOpen
          /\ caller[c].epoch = trial.period
          /\ \A d \in Callers \ {c} : caller[d].pc = "idle"
          /\ trial.succeeded = trial.admitted - 1)
            => IF trial.succeeded + 1 = cb.config.HalfOpenMaxRequests
               THEN cb'.state = StateClosed /\ CountersZero(cb')
               ELSE /\ trial.succeeded + 1 < cb.config.HalfOpenMaxRequests
                    /\ cb'.state = StateHalfOpen]_vars

C9_Witness ==
    /\ trial.last = "close"
    /\ cb.config.HalfOpenMaxRequests = 2
    /\ trial.succeeded = 2
    /\ cb.state = StateClosed
    /\ CountersZero(cb)

\* C10: while the breaker is half-open, halfOpenRequests never exceeds
\* HalfOpenMaxRequests, and no more than HalfOpenMaxRequests calls have
\* been admitted in the current half-open period, whatever the interleaving.
C10_HalfOpenCap ==
    cb.state = StateHalfOpen
       => /\ cb.halfOpenRequests <= cb.config.HalfOpenMaxRequests
          /\ trial.admitted <= cb.config.HalfOpenMaxRequests

C10_Witness ==
    /\ cb.state = StateHalfOpen
    /\ trial.admitted = cb.config.HalfOpenMaxRequests
    /\ trial.last = ErrTooManyRequests
    /\ \E c \in Callers : caller[c].res = ErrTooManyRequests
    /\ \E d \in Callers : caller[d].pc = "infn"

\* C11: Call runs the wrapped function exactly once when the call is
\* admitted and returns that function's result unchanged; a rejected call
\* returns the admission error (ErrCircuitOpen while open,
\* ErrTooManyRequests while half-open at the cap) without running the
\* function and without changing any breaker counter.
C11_CallContract ==
    [][\A c \in Callers :
         /\ (Attempts(c) /\ caller'[c].pc = "idle")
              => /\ cb' = cb
                 /\ cb.state # StateClosed
                 /\ cb.state = StateOpen
                      => /\ caller'[c].res = ErrCircuitOpen
                         /\ now - cb.lastStateChange <= cb.config.Timeout
                 /\ cb.state = StateHalfOpen
                      => /\ caller'[c].res = ErrTooManyRequests
                         /\ cb.halfOpenRequests >= cb.config.HalfOpenMaxRequests
         /\ (Attempts(c) /\ caller'[c].pc # "idle")
              => /\ caller'[c].pc = "infn"
                 /\ cb'.requests = cb.requests + 1
                 /\ cb.state = StateOpen
                      => now - cb.lastStateChange > cb.config.Timeout
                 /\ cb.state = StateHalfOpen
                      => cb.halfOpenRequests < cb.config.HalfOpenMaxRequests
         /\ (caller[c].pc = "infn" /\ caller'[c] # caller[c])
              => /\ caller'[c].pc = "idle"
                 /\ caller'[c].res \in {ErrNil, "error"}
                 /\ caller'[c].res = "error"
                      <=> cb'.failures = cb.failures + 1]_vars

C11_Witness ==
    /\ cb.state = StateOpen
    /\ trial.last = ErrCircuitOpen
    /\ \E c \in Callers : caller[c].res = ErrCircuitOpen
    /\ \E d \in Callers : caller[d].res = "error"

\* C12: failures, successes and requests are cleared on every transition
\* into closed (the closing success of a half-open trial, and Reset) and
\* at no other time; right after such a transition failures, successes,
\* requests, consecutiveFailures and halfOpenRequests are all 0; Reset
\* forces closed from any state.
C12_CountersClearedOnClose ==
    [][/\ (cb.state # StateClosed /\ cb'.state = StateClosed)
            => CountersZero(cb') /\ trial'.last \in {"close", "reset"}
       /\ (\/ cb'.failures < cb.failures
           \/ cb'.successes < cb.successes
           \/ cb'.requests < cb.requests)
            => /\ cb'.state = StateClosed
               /\ CountersZero(cb')
               /\ trial'.last \in {"close", "reset"}
       /\ (cb' # cb /\ trial'.last \in {"close", "reset"})
            => cb'.state = StateClosed /\ CountersZero(cb')]_vars

C12_Witness ==
    /\ trial.last = "reset"
    /\ trial.period > 0
    /\ cb.state = StateClosed
    /\ CountersZero(cb)
    /\ \E c \in Callers : caller[c].pc = "infn"

\* C13: while closed, right after a failure is recorded the breaker is
\* open if and only if consecutiveFailures >= maxFailures, or requests >=
\* minRequests and failures / requests >= failureThreshold, the counters
\* being those kept since the breaker last became closed; a recorded
\* success never opens the breaker.
C13_TripCondition ==
    [][\A c \in Callers :
         /\ (RecordsFailure(c) /\ cb.state = StateClosed)
              => /\ cb'.failures = cb.failures + 1
                 /\ cb'.consecutiveFailures = cb.consecutiveFailures + 1
                 /\ cb'.requests = cb.requests
                 /\ cb'.state \in {StateClosed, StateOpen}
                 /\ cb'.state = StateOpen
                      <=> \/ cb'.consecutiveFailures >= cb.config.MaxFailures
                          \/ /\ cb'.requests >= cb.config.MinRequests
                             /\ cb'.failures * cb.config.ThresholdDen
                                  >= cb.config.ThresholdNum * cb'.requests
         /\ (RecordsSuccess(c) /\ cb.state # StateOpen)
              => cb'.state # StateOpen]_vars

C13_Witness ==
    /\ trial.last = "trip"
    /\ cb.state = StateOpen
    /\ cb.consecutiveFailures < cb.config.MaxFailures
    /\ cb.requests >= cb.config.MinRequests
    /\ cb.failures * cb.config.ThresholdDen = cb.config.ThresholdNum * cb.requests


-----------------------------------------------------------------------------
(* The cache under arbitrary operations and the passage of time *)

InitCache ==
    /\ now = 0
    /\ cache \in {NewCache(ttl) : ttl \in 1..MaxTTL}
    /\ cacheLog = NoCacheLog
    /\ baseURL = V2BaseURL
    /\ sev = IdleSev
    /\ other = IdleOther
    /\ probe = NoProbe
    /\ mu = FreeMu
    /\ rl = NewRateLimiter(BucketSize, TicksPerToken)
    /\ waiter = IdleWaiters
    /\ granted = 0
    /\ cb = NewCircuitBreaker(DefaultCircuitBreakerConfig)
    /\ trial = NoTrial
    /\ caller = [c \in Callers |-> [pc |-> "idle", res |-> "none", epoch |-> 0]]
    /\ retryConfig \in {rc \in RetryConfigs : rc.MaxRetries = 0}
    /\ exec = [c \in Executors |-> NewExec("flaky")]

NextCache ==
    \/ \E k \in CacheKeys : CacheGet(k)
    \/ \E k \in CacheKeys, v \in CacheValues : CacheSet(k, v)
    \/ \E k \in CacheKeys : CacheDelete(k)
    \/ CacheClear
    \/ CacheCleanExpired
    \/ Tick

SpecCache == InitCache /\ [][NextCache]_vars

-----------------------------------------------------------------------------
(* Concurrent ListSeverities / GetSeverity calls on one client *)

InitSev ==
    /\ now = 0
    /\ cache \in {NewCache(ttl) : ttl \in 1..MaxTTL}
    /\ cacheLog = NoCacheLog
    /\ baseURL = V2BaseURL
    /\ sev = IdleSev
    /\ other = IdleOther
    /\ probe = NoProbe
    /\ mu = FreeMu
    /\ rl = NewRateLimiter(BucketSize, TicksPerToken)
    /\ waiter = IdleWaiters
    /\ granted = 0
    /\ cb = NewCircuitBreaker(DefaultCircuitBreakerConfig)
    /\ trial = NoTrial
    /\ caller = [c \in Callers |-> [pc |-> "idle", res |-> "none", epoch |-> 0]]
    /\ retryConfig \in {rc \in RetryConfigs : rc.MaxRetries = 0}
    /\ exec = [c \in Executors |-> NewExec("flaky")]

NextSev ==
    \/ \E g \in SevCallers, k \in CacheKeys : SevStart(g, k)
    \/ \E g \in SevCallers : SevCacheGet(g)
    \/ \E g \in SevCallers : SevReadBaseURL(g)
    \/ \E g \in SevCallers : SevSetBaseURL(g)
    \/ \E g \in SevCallers : SevSend(g)
    \/ \E g \in SevCallers, body \in CacheValues \cup {Malformed, "nil"} :
          SevRequestEnd(g, body)
    \/ \E g \in SevCallers : SevDecode(g)
    \/ \E g \in SevCallers : SevRestore(g)
    \/ SevTick

SpecSev == InitSev /\ [][NextSev]_vars

-----------------------------------------------------------------------------
(* The severities endpoints and another endpoint on one client *)

InitURL ==
    /\ now = 0
    /\ cache = NewCache(MaxTTL)
    /\ cacheLog = NoCacheLog
    /\ baseURL = V2BaseURL
    /\ sev = IdleSev
    /\ other = IdleOther
    /\ probe = NoProbe
    /\ mu = FreeMu
    /\ rl = NewRateLimiter(BucketSize, TicksPerToken)
    /\ waiter = IdleWaiters
    /\ granted = 0
    /\ cb = NewCircuitBreaker(DefaultCircuitBreakerConfig)
    /\ trial = NoTrial
    /\ caller = [c \in Callers |-> [pc |-> "idle", res |-> "none", epoch |-> 0]]
    /\ retryConfig \in {rc \in RetryConfigs : rc.MaxRetries = 0}
    /\ exec = [c \in Executors |-> NewExec("flaky")]

NextURL ==
    \/ \E g \in SevCallers, k \in CacheKeys : SevStart(g, k)
    \/ \E g \in SevCallers : SevCacheGet(g)
    \/ \E g \in SevCallers : SevReadBaseURL(g)
    \/ \E g \in SevCallers : SevSetBaseURL(g)
    \/ \E g \in SevCallers : SevSend(g)
    \/ \E g \in SevCallers, body \in CacheValues \cup {Malformed, "nil"} :
          SevRequestEnd(g, body)
    \/ \E g \in SevCallers : SevDecode(g)
    \/ \E g \in SevCallers : SevRestore(g)
    \/ OtherStart
    \/ OtherSend
    \/ OtherEnd

SpecURL == InitURL /\ [][NextURL]_vars

-----------------------------------------------------------------------------
(* The retry policy's functions on their own *)

InitRetry ==
    /\ now = 0
    /\ retryConfig \in ProbeRetryConfigs
    /\ probe = NoProbe
    /\ mu = FreeMu
    /\ other = IdleOther
    /\ cache = NewCache(MaxTTL)
    /\ cacheLog = NoCacheLog
    /\ baseURL = V2BaseURL
    /\ sev = IdleSev
    /\ rl = NewRateLimiter(BucketSize, TicksPerToken)
    /\ waiter = IdleWaiters
    /\ granted = 0
    /\ cb = NewCircuitBreaker(DefaultCircuitBreakerConfig)
    /\ trial = NoTrial
    /\ caller = [c \in Callers |-> [pc |-> "idle", res |-> "none", epoch |-> 0]]
    /\ exec = [c \in Executors |-> NewExec("flaky")]

NextRetry ==
    \/ \E statusCode \in StatusCodes, err \in {ErrNil, "error"} :
          CallShouldRetry(statusCode, err)
    \/ \E attempt \in 0..MaxAttempt : CallCalculateBackoff(attempt)

SpecRetry == InitRetry /\ [][NextRetry]_vars

-----------------------------------------------------------------------------
(* FormatJSONResponse on its own *)

InitFormat ==
    /\ now = 0
    /\ probe = NoProbe
    /\ mu = FreeMu
    /\ retryConfig = DefaultRetryConfig
    /\ other = IdleOther
    /\ cache = NewCache(MaxTTL)
    /\ cacheLog = NoCacheLog
    /\ baseURL = V2BaseURL
    /\ sev = IdleSev
    /\ rl = NewRateLimiter(BucketSize, TicksPerToken)
    /\ waiter = IdleWaiters
    /\ granted = 0
    /\ cb = NewCircuitBreaker(DefaultCircuitBreakerConfig)
    /\ trial = NoTrial
    /\ caller = [c \in Callers |-> [pc |-> "idle", res |-> "none", epoch |-> 0]]
    /\ exec = [c \in Executors |-> NewExec("flaky")]

NextFormat ==
    \E env \in EnvValues, jsonLen \in JSONLengths, spare \in SpareCapacities,
       comma \in CommaPlaces, closes \in BOOLEAN :
          CallFormatJSONResponse(env, jsonLen, spare, comma, closes)

SpecFormat == InitFormat /\ [][NextFormat]_vars

-----------------------------------------------------------------------------
(* Claims about the rate limiter (specification SpecRL) *)

\* C14: under any interleaving of concurrent Wait calls 0 <= tokens <=
\* maxTokens; tokens grow only by the time-proportional refill (elapsed
\* time x refill rate, capped at maxTokens) and shrink only by exactly one
\* token per successful acquisition.
C14_TokenBucket ==
    [][LET elapsed == now - rl.lastRefill
           added == rl.tokens + elapsed
           filled == IF added > rl.maxTokens THEN rl.maxTokens ELSE added
       IN  /\ 0 <= rl.tokens /\ rl.tokens <= rl.maxTokens
           /\ 0 <= rl'.tokens /\ rl'.tokens <= rl'.maxTokens
           /\ granted' \in {granted, granted + 1}
           /\ rl'.tokens = (IF rl' = rl THEN rl.tokens ELSE filled)
                             - (IF granted' > granted
                                THEN rl.ticksPerToken ELSE 0)]_vars

C14_Witness ==
    /\ granted > BucketSize
    /\ rl.throttledCount > 0
    /\ rl.tokens < rl.ticksPerToken
    /\ rl.lastRefill > 0

\* C15: starting from a full bucket the first maxTokens Wait calls return
\* without blocking, and the next Wait does not return before 1/refillRate
\* has elapsed (and never sleeps longer than that at a time).
C15_BurstThenWait ==
    /\ \A w \in Waiters : waiter[w].blocked => granted >= BucketSize
    /\ rl.throttledCount > 0 => rl.requestsCount > BucketSize
    /\ granted > BucketSize => now >= rl.ticksPerToken
    /\ \A w \in Waiters :
         waiter[w].pc = "sleep" => waiter[w].wake <= now + rl.ticksPerToken

C15_Witness ==
    /\ granted = BucketSize + 1
    /\ now = rl.ticksPerToken
    /\ rl.throttledCount = 1
    /\ \E w \in Waiters : waiter[w].res = ErrNil /\ waiter[w].blocked

-----------------------------------------------------------------------------
(* Claims about the cache (specification SpecCache) *)

\* One of the cache's operations has just run (the clock has not moved).
CacheStep(op) == cacheLog'.op = op /\ now' = now

\* C17: whatever sequence of Set, Get, Delete, Clear and CleanExpired and
\* whatever passage of time came before, a Get never returns found = true
\* with a value of an entry whose ExpiresAt is earlier than the time of the
\* Get.
C17_NoExpiredHit ==
    [][(CacheStep("Get") /\ cacheLog'.found)
          => /\ cacheLog'.key \in DOMAIN cache.entries
             /\ cache.entries[cacheLog'.key].ExpiresAt >= now
             /\ cacheLog'.value = cache.entries[cacheLog'.key].Data]_vars

C17_Witness ==
    /\ cacheLog.op = "Get"
    /\ cacheLog.key \in DOMAIN cache.entries
    /\ ~cacheLog.found
    /\ now = cache.entries[cacheLog.key].ExpiresAt + 1

\* C18: Get(k) returns (v, true) if and only if the most recent of Set(k, .),
\* Delete(k) and Clear() was Set(k, v) and the current time is not after
\* that Set's time plus the ttl; Set always overwrites the entry and stamps
\* the expiry now + ttl; Delete and Clear remove unconditionally.
C18_GetAfterLastSet ==
    [][/\ CacheStep("Get")
            => LET k == cacheLog'.key
                   last == cacheLog.lastSet[k]
               IN  /\ cacheLog'.found
                        <=> last # NoSet /\ now <= last.at + cache.ttl
                   /\ cacheLog'.found => cacheLog'.value = last.value
                   /\ cache' = cache
       /\ CacheStep("Set")
            => LET k == cacheLog'.key
               IN  /\ DOMAIN cache'.entries = DOMAIN cache.entries \cup {k}
                   /\ cache'.entries[k] =
                         [Data |-> cacheLog'.value, ExpiresAt |-> now + cache.ttl]
                   /\ \A j \in DOMAIN cache.entries \ {k} :
                         cache'.entries[j] = cache.entries[j]
       /\ CacheStep("Delete")
            => /\ DOMAIN cache'.entries = DOMAIN cache.entries \ {cacheLog'.key}
               /\ \A j \in DOMAIN cache'.entries :
                     cache'.entries[j] = cache.entries[j]
       /\ CacheStep("Clear") => DOMAIN cache'.entries = {}]_vars

C18_Witness ==
    /\ cacheLog.op = "Get"
    /\ cacheLog.found
    /\ cacheLog.lastSet[cacheLog.key].at > 0
    /\ now = cacheLog.lastSet[cacheLog.key].at + cache.ttl
    /\ cacheLog.value = cacheLog.lastSet[cacheLog.key].value

\* C19: CleanExpired removes exactly the entries whose expiry is before
\* the current time and leaves every other entry and its expiry unchanged,
\* so that any later Get for any key gives what it would have given
\* without the CleanExpired.
C19_CleanExpiredFrame ==
    [][CacheStep("CleanExpired")
          => /\ DOMAIN cache'.entries =
                   {k \in DOMAIN cache.entries : cache.entries[k].ExpiresAt >= now}
             /\ \A k \in DOMAIN cache'.entries :
                   cache'.entries[k] = cache.entries[k]
             /\ cache'.ttl = cache.ttl
             /\ \A k \in CacheKeys, t \in now..(MaxTime + MaxTTL + 1) :
                   Get(cache', k, t) = Get(cache, k, t)]_vars

C19_Witness ==
    /\ cacheLog.op = "CleanExpired"
    /\ \E k \in CacheKeys :
          /\ k \notin DOMAIN cache.entries
          /\ cacheLog.lastSet[k] # NoSet
    /\ \E k \in DOMAIN cache.entries : cache.entries[k].ExpiresAt = now

-----------------------------------------------------------------------------
(* Claims about the read-through endpoints (specification SpecSev) *)

\* C20: ListSeverities and GetSeverity are read-through: when the cache
\* holds an unexpired entry for the key the call returns the cached value
\* with no network call; on a miss, or once the entry has expired, the
\* request is performed and its result is stored only when it succeeded; a
\* failed request leaves the cache unchanged.
C20_ReadThrough ==
    [][/\ \A g \in SevCallers :
            /\ (sev[g].pc = "get" /\ sev'[g] # sev[g])
                 => LET k == sev[g].key
                        hit == /\ k \in DOMAIN cache.entries
                               /\ cache.entries[k].ExpiresAt >= now
                    IN  /\ cache' = cache
                        /\ IF hit
                           THEN /\ sev'[g].pc = "idle"
                                /\ sev'[g].res = "cached"
                                /\ sev'[g].value = cache.entries[k].Data
                                /\ sev[g].sends = 0
                           ELSE sev'[g].pc = "saveURL"
            /\ sev'[g].sends > sev[g].sends => sev[g].pc = "request"
            /\ (sev[g].pc # "request" /\ sev'[g].pc = "request")
                 => sev[g].pc = "setURL"
            /\ (sev[g].pc = "setURL" /\ sev'[g] # sev[g])
                 => sev'[g].pc = "request"
            /\ (sev'[g].res = "error" /\ sev[g].res # "error")
                 => cache' = cache
            /\ (sev'[g].res = "fetched" /\ sev[g].res # "fetched")
                 => /\ sev[g].sends > 0
                    /\ sev[g].key \in DOMAIN cache'.entries
                    /\ cache'.entries[sev[g].key] =
                          [Data |-> sev'[g].value, ExpiresAt |-> now + cache.ttl]
       /\ cache' # cache
            => \E g \in SevCallers :
                  /\ sev[g].pc = "decode"
                  /\ sev[g].body \in CacheValues
                  /\ sev'[g].res = "fetched"
                  /\ sev'[g].value = sev[g].body
                  /\ \A k \in DOMAIN cache.entries \ {sev[g].key} :
                        /\ k \in DOMAIN cache'.entries
                        /\ cache'.entries[k] = cache.entries[k]]_vars

C20_Witness ==
    \E g, h \in SevCallers :
        /\ sev[g].pc = "idle"
        /\ sev[g].res = "cached"
        /\ \E k \in DOMAIN cache.entries :
              /\ cache.entries[k].Data = sev[g].value
              /\ cache.entries[k].ExpiresAt = now
        /\ sev[h].pc = "idle"
        /\ sev[h].res = "error"

-----------------------------------------------------------------------------
(* Claims about the retry policy (specification SpecRetry) *)

\* C21: ShouldRetry(statusCode, err) is true whenever err is not nil, and
\* otherwise true if and only if statusCode is in the configured retryable
\* set; with the defaults it is true for 408, 429, 500, 502, 503 and 504
\* and false for 200 and 404.
C21_ShouldRetry ==
    probe.fn = "ShouldRetry"
       => /\ probe.err # ErrNil => probe.out
          /\ probe.err = ErrNil
               => (probe.out
                     <=> probe.statusCode \in retryConfig.RetryableStatusCodes)
          /\ (probe.err = ErrNil /\ retryConfig = DefaultRetryConfig)
               => /\ probe.statusCode \in {408, 429, 500, 502, 503, 504}
                       => probe.out
                  /\ probe.statusCode \in {200, 404} => ~probe.out

C21_Witness ==
    /\ probe.fn = "ShouldRetry"
    /\ retryConfig = DefaultRetryConfig
    /\ probe.statusCode = 404
    /\ probe.err = ErrNil
    /\ ~probe.out

\* base^n, by repeated multiplication.
RECURSIVE Power(_, _)
Power(base, n) == IF n = 0 THEN 1 ELSE base * Power(base, n - 1)

\* initialBackoff x multiplier^n, capped at maxBackoff.
CappedBackoff(rc, n) ==
    LET b == rc.InitialBackoff * Power(rc.Multiplier, n)
    IN  IF b > rc.MaxBackoff THEN rc.MaxBackoff ELSE b

\* C22: for every zero-based attempt n >= 0, CalculateBackoff(n) equals
\* initialBackoff x multiplier^n capped at maxBackoff; with the defaults
\* (in units of 100ms) this is 1, 2, 4, 8 for n = 0..3 and 100 for n = 10.
C22_BackoffFormula ==
    probe.fn = "CalculateBackoff"
       => /\ probe.out = CappedBackoff(retryConfig, probe.attempt)
          /\ retryConfig = DefaultRetryConfig
               => /\ probe.attempt = 0 => probe.out = 1
                  /\ probe.attempt = 1 => probe.out = 2
                  /\ probe.attempt = 2 => probe.out = 4
                  /\ probe.attempt = 3 => probe.out = 8
                  /\ probe.attempt = 10 => probe.out = 100

\* C22, amended: CalculateBackoff(0) is initialBackoff itself, uncapped;
\* for every n >= 1, and for n = 0 when initialBackoff <= maxBackoff,
\* CalculateBackoff(n) equals initialBackoff x multiplier^n capped at
\* maxBackoff; with the defaults (in units of 100ms) this is 1, 2, 4, 8 for
\* n = 0..3 and 100 for n = 10.
C22_Amended ==
    probe.fn = "CalculateBackoff"
       => /\ probe.attempt = 0 => probe.out = retryConfig.InitialBackoff
          /\ (\/ probe.attempt >= 1
              \/ retryConfig.InitialBackoff <= retryConfig.MaxBackoff)
               => probe.out = CappedBackoff(retryConfig, probe.attempt)
          /\ retryConfig = DefaultRetryConfig
               => /\ probe.attempt = 0 => probe.out = 1
                  /\ probe.attempt = 1 => probe.out = 2
                  /\ probe.attempt = 2 => probe.out = 4
                  /\ probe.attempt = 3 => probe.out = 8
                  /\ probe.attempt = 10 => probe.out = 100

C22_Witness ==
    /\ probe.fn = "CalculateBackoff"
    /\ retryConfig = DefaultRetryConfig
    /\ probe.attempt = 10
    /\ probe.out = 100

\* C23: for every retry configuration and every n >= 0,
\* CalculateBackoff(0) = initialBackoff, CalculateBackoff(n) <=
\* CalculateBackoff(n + 1), and CalculateBackoff(n) never exceeds
\* maxBackoff.
C23_BackoffMonotoneBounded ==
    probe.fn = "CalculateBackoff"
       => /\ probe.attempt = 0 => probe.out = retryConfig.InitialBackoff
          /\ probe.out <= probe.next
          /\ probe.out <= retryConfig.MaxBackoff

\* C23, amended: CalculateBackoff(0) = initialBackoff for every
\* configuration; CalculateBackoff(n) <= maxBackoff for every n >= 1; and
\* when multiplier >= 1 and initialBackoff <= maxBackoff, for every n >= 0
\* CalculateBackoff(n) <= CalculateBackoff(n + 1) and CalculateBackoff(n)
\* <= maxBackoff.
C23_Amended ==
    probe.fn = "CalculateBackoff"
       => /\ probe.attempt = 0 => probe.out = retryConfig.InitialBackoff
          /\ probe.attempt >= 1 => probe.out <= retryConfig.MaxBackoff
          /\ (/\ retryConfig.Multiplier >= 1
              /\ retryConfig.InitialBackoff <= retryConfig.MaxBackoff)
               => /\ probe.out <= probe.next
                  /\ probe.out <= retryConfig.MaxBackoff

C23_Witness ==
    /\ probe.fn = "CalculateBackoff"
    /\ retryConfig.Multiplier >= 2
    /\ retryConfig.InitialBackoff < retryConfig.MaxBackoff
    /\ probe.attempt >= 1
    /\ probe.out < probe.next
    /\ probe.next = retryConfig.MaxBackoff
    /\ probe.next < retryConfig.InitialBackoff
                       * Power(retryConfig.Multiplier, probe.attempt + 1)

-----------------------------------------------------------------------------
(* Claims about response formatting (specification SpecFormat) *)

\* C24: for every positive maximum response size and every response whose
\* compact JSON is longer than that maximum, FormatJSONResponse returns,
\* without failing, a truncated string that contains the truncation
\* warning, is no longer than the original JSON and does not exceed the
\* maximum size.
C24_TruncationWithinLimit ==
    (/\ probe.fn = "FormatJSONResponse"
     /\ probe.maxSize > 0
     /\ probe.jsonLen > probe.maxSize)
       => /\ probe.out.err = ErrNil
          /\ probe.out.warning
          /\ probe.out.len <= probe.jsonLen
          /\ probe.out.len <= probe.maxSize

-----------------------------------------------------------------------------
(* Claims about the breaker under concurrent callers (specification SpecCB) *)

\* C25: the breaker moves from half-open to closed only after
\* HalfOpenMaxRequests trial calls admitted in that half-open period have
\* completed successfully: the count that triggers closing counts
\* successes, not admissions.
C25_ClosesAfterSuccesses ==
    [][(/\ cb.state = StateHalfOpen
        /\ cb'.state = StateClosed
        /\ trial'.last = "close")
          => trial'.succeeded >= cb.config.HalfOpenMaxRequests]_vars

\* C26: while the breaker is half-open, the outcome of a call admitted
\* before the current half-open period (while closed, or in an earlier
\* half-open period) and recorded now does not change the state.
C26_StaleOutcomeIgnored ==
    [][\A c \in Callers :
          (/\ cb.state = StateHalfOpen
           /\ caller[c].pc = "infn"
           /\ caller'[c].pc = "idle"
           /\ caller[c].epoch # trial.period)
             => cb'.state = StateHalfOpen]_vars

\* C30: in every reachable state successes + failures <= requests, with
\* equality whenever no admitted call is still in flight.
C30_CountersAddUp ==
    /\ cb.successes + cb.failures <= cb.requests
    /\ (\A c \in Callers : caller[c].pc = "idle")
          => cb.successes + cb.failures = cb.requests

-----------------------------------------------------------------------------
(* Claims about the client's base URL (specifications SpecSev, SpecURL) *)

\* C27: after any set of concurrent ListSeverities and GetSeverity calls
\* on one client has completed, the client's base URL equals the value it
\* had before those calls.
C27_BaseURLRestored ==
    (\A g \in SevCallers : sev[g].pc = "idle") => baseURL = V2BaseURL

\* C28: a request issued through DoRequest by an endpoint other than
\* severities is always sent to the client's configured base URL, also
\* when a ListSeverities or GetSeverity call runs concurrently.
C28_OtherUsesConfiguredURL ==
    other.url \in {"nil", V2BaseURL}

-----------------------------------------------------------------------------
(* Claims about cancelled requests (specification Spec) *)

\* C29: a request whose network call ends because the caller cancelled it
\* is not recorded as a failure of the dependency: the breaker's failures
\* and consecutiveFailures counters and its state are the same as before
\* that attempt's outcome was recorded.
C29_CancelNotRecorded ==
    [][\A c \in Executors :
          (/\ exec[c].pc = "infn"
           /\ exec[c].ctxDone
           /\ exec'[c].pc # "infn")
             => /\ cb'.failures = cb.failures
                /\ cb'.consecutiveFailures = cb.consecutiveFailures
                /\ cb'.state = cb.state]_vars

-----------------------------------------------------------------------------
(* Claims about the executor's attempts (specification Spec) *)

RECURSIVE TotalInvocations(_)
TotalInvocations(S) ==
    IF S = {} THEN 0
    ELSE LET c == CHOOSE x \in S : TRUE
         IN  exec[c].invocations + TotalInvocations(S \ {c})

\* Tokens the rate limiter has handed out: acquisition attempts that were
\* not throttled.
TokensGranted == rl.requestsCount - rl.throttledCount

C31_AttemptsBounded ==
    /\ \A c \in Executors :
          /\ exec[c].attempt <= retryConfig.MaxRetries
          /\ exec[c].invocations <= exec[c].attempt + 1
    /\ TotalInvocations(Executors) <= TokensGranted

C31_AttemptStep(c) ==
    \* the breaker is reached only from a successful tryAcquire, which
    \* takes exactly one token
    /\ (exec[c].pc # "call" /\ exec'[c].pc = "call")
          => /\ exec[c].pc = "acquire"
             /\ rl'.tokens = refill(rl, now).tokens - rl.ticksPerToken
    \* a network invocation starts only from the breaker's admission
    /\ exec'[c].invocations # exec[c].invocations
          => /\ exec[c].pc = "call"
             /\ exec'[c].invocations = exec[c].invocations + 1
    \* the sleep that starts after attempt k lasts CalculateBackoff(k) ...
    /\ (exec[c].pc # "backoff" /\ exec'[c].pc = "backoff")
          => exec'[c].wake = now + CalculateBackoff(retryConfig, exec[c].attempt)
    \* ... and attempt k+1 starts only when it is over
    /\ exec'[c].attempt # exec[c].attempt
          => /\ exec[c].pc = "backoff"
             /\ now >= exec[c].wake
             /\ exec'[c].attempt = exec[c].attempt + 1

\* C31: one doRequestWithContext performs at most MaxRetries + 1 attempts;
\* every attempt first acquires exactly one rate-limiter token and only
\* then goes through the breaker, so network invocations never outnumber
\* the tokens granted; and between attempt k and attempt k+1 it sleeps
\* CalculateBackoff(k).
C31_AttemptsTokensBackoff ==
    /\ []C31_AttemptsBounded
    /\ [][\A c \in Executors : C31_AttemptStep(c)]_vars

C31_Witness ==
    \E c \in Executors :
       /\ exec[c].pc = "done"
       /\ retryConfig.MaxRetries = 2
       /\ exec[c].attempt = 2
       /\ exec[c].invocations = 3
       /\ now >= CalculateBackoff(retryConfig, 0) + CalculateBackoff(retryConfig, 1)
       /\ TokensGranted >= 3

\* C32: in the rate-limiter wait and in the backoff sleep, when the timer
\* and the cancellation signal are both ready, cancellation wins: the
\* operation returns the cancellation error and does not go on to another
\* acquisition attempt or another request attempt.
C32_CancellationWins ==
    [][\A c \in Executors :
          (/\ exec[c].pc \in {"rlsleep", "backoff"}
           /\ exec[c].ctxDone
           /\ now >= exec[c].wake
           /\ exec'[c] # exec[c])
             => /\ exec'[c].pc = "done"
                /\ exec'[c].ret \in {RetRateLimiter, RetContext}]_vars

-----------------------------------------------------------------------------
(* Claims about the locks (specification SpecLock) *)

\* Goroutine c holds no lock at all.
HoldsNothing(c) == \A m \in Mutexes : ~Holds(c, m)

\* C33: no caller holds the lock of the cache, the rate limiter or the
\* circuit breaker while it is suspended in a rate-limit wait, a backoff
\* sleep or the network call; while the other callers are suspended (or
\* not running), a caller about to run a cache, rate-limiter or breaker
\* operation can take its lock and complete the operation.
C33_NoLockWhileSuspended ==
    /\ \A c \in Executors : Suspended(c) => HoldsNothing(c)
    /\ \A d \in Executors :
          (/\ exec[d].pc \in DOMAIN LockPoints
           /\ \A c \in Executors \ {d} :
                 Suspended(c) \/ exec[c].pc \in {"idle", "done"})
             => IF Holds(d, LockPoints[exec[d].pc].m)
                THEN ENABLED LkBody(d)
                ELSE ENABLED LkLock(d)

C33_Witness ==
    \E c, d \in Executors :
       /\ exec[c].pc = "rlsleep"
       /\ HoldsNothing(c)
       /\ exec[d].pc = "acquire"
       /\ Holds(d, "rl")
       /\ ENABLED LkBody(d)

-----------------------------------------------------------------------------
(* Claims about recovery (specification SpecRecover) *)

\* C34: the breaker cannot stay open or half-open forever once the
\* dependency has recovered: if callers keep issuing calls, time advances
\* and fn succeeds on every call, then from open the breaker eventually
\* admits a trial call (it becomes half-open) and eventually reaches closed.
C34_BreakerRecovers ==
    /\ (cb.state = StateOpen) ~> (cb.state # StateOpen /\ trial.period >= 1)
    /\ (cb.state # StateClosed) ~> (cb.state = StateClosed)

C34_Witness ==
    /\ cb.state = StateClosed
    /\ trial.period = 1
    /\ trial.last = "close"
    /\ trial.succeeded >= 1

-----------------------------------------------------------------------------
(* Further invariants of the breaker (specification SpecCB) *)

\* No call admitted by the breaker is still running fn.
NoCallInFlight == \A c \in Callers : caller[c].pc = "idle"

\* C35: with HalfOpenMaxRequests >= 1, whenever the breaker is half-open
\* and no admitted call is still in flight, halfOpenRequests <
\* HalfOpenMaxRequests, so the next call is admitted (a caller whose calls
\* do not overlap any other never gets ErrTooManyRequests).
C35_HalfOpenHasRoom ==
    (/\ cb.config.HalfOpenMaxRequests >= 1
     /\ cb.state = StateHalfOpen
     /\ NoCallInFlight)
       => /\ cb.halfOpenRequests < cb.config.HalfOpenMaxRequests
          /\ beforeRequest(cb, now).err = ErrNil

C35_Witness ==
    /\ cb.state = StateHalfOpen
    /\ NoCallInFlight
    /\ cb.halfOpenRequests = 1
    /\ cb.config.HalfOpenMaxRequests = 2
    /\ trial.succeeded = 1

\* C36: with MaxFailures >= 1, in every reachable state in which the
\* breaker is closed, consecutiveFailures < MaxFailures, under any
\* interleaving of concurrent calls, outcomes recorded late and Reset().
C36_ClosedBelowMaxFailures ==
    (cb.config.MaxFailures >= 1 /\ cb.state = StateClosed)
       => cb.consecutiveFailures < cb.config.MaxFailures

\* Closed again after a trip, one failure short of the next one, the last
\* outcome recorded being that of a call admitted before the current state.
C36_Witness ==
    /\ cb.state = StateClosed
    /\ trial.period >= 1
    /\ cb.config.MaxFailures >= 2
    /\ cb.consecutiveFailures = cb.config.MaxFailures - 1
    /\ cb.requests < cb.failures

\* C37: in every reachable state in which the breaker is closed or open,
\* halfOpenRequests = 0.
C37_HalfOpenRequestsZero ==
    cb.state \in {StateClosed, StateOpen} => cb.halfOpenRequests = 0

\* Open again after a failed trial call, and closed after a successful one.
C37_Witness ==
    \/ /\ cb.state = StateOpen
       /\ trial.last = "reopen"
       /\ trial.admitted = 2
       /\ cb.halfOpenRequests = 0
    \/ /\ cb.state = StateClosed
       /\ trial.last = "close"
       /\ trial.admitted = 2
       /\ cb.halfOpenRequests = 0

-----------------------------------------------------------------------------
(* Further claims about the rate limiter (specification SpecRL) *)

\* C38: starting from a full bucket, the number of Wait calls that have
\* succeeded by elapsed time t is at most maxTokens + refillRate x t
\* (both sides in units of 1/ticksPerToken of a token).
C38_ThroughputBound ==
    granted * rl.ticksPerToken <= rl.maxTokens + now

C38_Witness ==
    /\ granted > BucketSize
    /\ now > 0
    /\ granted * rl.ticksPerToken = rl.maxTokens + now

\* C39: requestsCount equals the number of successful acquisitions plus
\* throttledCount; hence Wait calls that are never throttled leave
\* requestsCount equal to their number and throttledCount = 0.
C39_StatsAddUp ==
    /\ rl.requestsCount = granted + rl.throttledCount
    /\ rl.throttledCount = 0 => rl.requestsCount = granted

C39_Witness ==
    /\ granted >= 2
    /\ rl.throttledCount >= 2
    /\ rl.requestsCount = granted + rl.throttledCount
    /\ \A w \in Waiters : waiter[w].pc = "idle"

-----------------------------------------------------------------------------
(* Claims about termination of Wait (specification SpecRLFair) *)

\* C40: with refillRate > 0, no cancellation and finitely many Wait calls
\* by a finite set of concurrent callers, every Wait call eventually
\* returns nil under fair scheduling.
C40_WaitReturns ==
    \A w \in Waiters :
       (waiter[w].pc # "idle") ~> (waiter[w].pc = "idle" /\ waiter[w].res = ErrNil)

\* A Wait that was throttled more than once (another caller took the token
\* it had slept for) has returned nil.
C40_Witness ==
    \E w \in Waiters :
       /\ waiter[w].pc = "idle"
       /\ waiter[w].res = ErrNil
       /\ waiter[w].blocked
       /\ rl.throttledCount >= 3
       /\ granted > BucketSize + 1

=============================================================================
